---- MODULE Spec2Model ----
(***************************************************************************)
(* BazaarHelper front end (src/src/App.tsx, src/src/OverlayApp.tsx) and    *)
(* the recognition back end it calls through invoke().  The Rust back end  *)
(* is not part of the sources; the parts of it the properties need (the    *)
(* loading-progress tracker, the template loader, the matchers) are        *)
(* modelled from the specification and marked as such.                     *)
(*                                                                         *)
(* Each async handler is split at its awaits: one action up to the await   *)
(* that issues the back-end call, one action for the continuation that     *)
(* runs when the call returns.  JavaScript runs each piece to completion,  *)
(* so each piece is one atomic action.                                     *)
(***************************************************************************)
EXTENDS Integers, Sequences, FiniteSets, Bags, TLC

\* ------------------------------------------------------------------ bounds
\* total number of recognition triggers (of any kind) in one behaviour
MaxRequests == 3
\* monster recognition triggers in the behaviours of the monster tab
MaxMonsterRequests == 1
MaxCardRequests == 2
\* the same, in the behaviours checked for liveness
MaxLiveRequests == 2
\* number of catalog entries the template loader declares
CatalogSize == 2
\* number of get_template_loading_progress polls in one behaviour
MaxPolls == 3
MaxLivePolls == 2
\* number of day changes / tab clicks in one behaviour
MaxDayOps == 2

\* ------------------------------------------------------------- small helpers
RemoveAt(s, i) == SubSeq(s, 1, i - 1) \o SubSeq(s, i + 1, Len(s))

Range(s) == { s[i] : i \in 1..Len(s) }

\* JavaScript null for a day number / an absent day argument
NoDay == 0

\* `Day ${d}` for the one-digit days
DigitStr == << "1", "2", "3", "4", "5", "6", "7", "8", "9" >>

DayLabel_from9(d) == IF d >= 9 THEN "Day 10+" ELSE "Day " \o DigitStr[d]

\* App.tsx:665 / 954 / 1013 / 1057: d >= 10 ? "Day 10+" : `Day ${d}`
DayLabel(d) == IF d >= 10 THEN "Day 10+" ELSE "Day " \o DigitStr[d]

\* App.tsx:1602-1604: label.match(/Day\s+(\d+)/) succeeds
HasDayNum(label) == label = "Day 10+" \/ \E d \in 1..9 : DayLabel(d) = label

\* parseInt of the digits after "Day "
DayNumOfLabel(label) ==
  IF label = "Day 10+" THEN 10 ELSE CHOOSE d \in 1..9 : DayLabel(d) = label

\* ------------------------------------------------------------ program state
VARIABLES
  \* App.tsx React state
  activeTab, selectedDay, currentDay, allMonsters, manualMonsters,
  identifiedNames, expandedMonsters, isRecognizing, isRecognizingCard,
  recognizedCards, errorMessage, templateLoading,
  \* window.__yolo_running
  yolo_running,
  \* OverlayApp.tsx React state
  yoloResult, identifying,
  \* pending timers, back-end calls in flight and suspended continuations
  monsterTimers, monsterCalls, cardCalls, cardPost, yoloCalls, yoloPost,
  overlayCalls, overlayPost, filterRuns, polls, pollTimer, fetchDay,
  \* back end: loading-progress tracker, loader position, day bridge
  progress, loaderStarted, bridgeDay,
  \* back end: the loader's cursor with the bank under construction, and
  \* the published Template Bank
  loading, bank,
  \* bookkeeping for the properties (not program state)
  requests, issued, arrivedIdle, dayOps, pollsSent, lastOutcome,
  \* App.tsx:902-1075, 1255-1276: the mount flag of the listener effect, the
  \* safeListen call setupListeners is suspended at, the unlisten functions
  \* kept for the cleanup, and the listeners the event system holds
  isMounted, setupNext, unlisteners, unlisten, dbListenPending, registered,
  \* bookkeeping: state updates by callbacks after unmount, events delivered
  lateUpdates, listenerEvents,
  \* App.tsx:1226-1252: loadAllMonsters
  retryCount, monstersCall, retryTimer, getAllCalls, loadOutcome,
  \* App.tsx:147-148: pinned items; the hand and its rendered order
  pinnedItems, pinnedCounter, handItems, shownItems,
  \* bookkeeping: the pin numbers handed out, operations so far
  pinLog, pinOps, syncs,
  \* useDraggable.ts: hook state, refs and the localStorage entry
  dragMounted, storageKey, position, isDragging, offset, stored,
  \* bookkeeping: a drag was started and not ended, mouse events so far
  dragOpen, mouseEvents

appVars == << activeTab, selectedDay, currentDay, allMonsters, manualMonsters,
              identifiedNames, expandedMonsters, isRecognizing,
              isRecognizingCard, recognizedCards, errorMessage,
              templateLoading >>
overlayVars == << yoloResult, identifying >>
asyncVars == << monsterTimers, monsterCalls, cardCalls, cardPost, yoloCalls,
                yoloPost, overlayCalls, overlayPost, filterRuns, polls,
                pollTimer, fetchDay >>
backendVars == << progress, loaderStarted, bridgeDay, loading, bank >>
histVars == << requests, issued, arrivedIdle, dayOps, pollsSent, lastOutcome >>

listenerVars == << isMounted, setupNext, unlisteners, unlisten,
                   dbListenPending, registered, lateUpdates, listenerEvents >>
loaderVars == << retryCount, monstersCall, retryTimer, getAllCalls,
                 loadOutcome >>
pinVars == << pinnedItems, pinnedCounter, handItems, shownItems, pinLog,
              pinOps, syncs >>
dragVars == << dragMounted, storageKey, position, isDragging, offset, stored,
               dragOpen, mouseEvents >>
componentVars == << listenerVars, loaderVars, pinVars, dragVars >>

vars == << appVars, yolo_running, overlayVars, asyncVars, backendVars,
           histVars, componentVars >>

Kinds == { "monster", "card", "yolo", "overlay" }


\* --------------------------------------------------------- catalog contents
\* get_all_monsters: the monster database in key order; key = name_zh
\* (App.tsx:1586 "in monsters_db.json the key is already the Chinese name")
MonsterDb == << [name_zh |-> "A", available |-> "Day 1"],
                [name_zh |-> "B", available |-> "Day 2"],
                [name_zh |-> "C", available |-> "Day 1"] >>

MonsterNames == { MonsterDb[i].name_zh : i \in 1..Len(MonsterDb) }

\* allMonsters[name] (undefined when the key is absent)
HasMonster(db, name) == \E i \in 1..Len(db) : db[i].name_zh = name

LookupMonster(db, name) ==
  db[CHOOSE i \in 1..Len(db) : db[i].name_zh = name]

\* item ids the detector can report
ItemIds == { "a", "b", "c", "d" }

\* get_item_info(id): ItemData | null.  "d" is a detector class without a
\* database record (App.tsx:537 `if (itemInfo)` handles the null).
ItemsWithInfo == { "a", "b", "c" }

\* --------------------------------------------- first-render closure values
\* The listeners are registered once by the mount effect (App.tsx:902-1075,
\* dependency list []), so handleAutoRecognition and handleRecognizeCard as
\* called from them are the functions of the first render and read the
\* state of the first render (the useState initial values).
isRecognizing_closure == FALSE

isRecognizingCard_closure == FALSE

allMonsters_closure == << >>

selectedDay_closure == ""

\* ------------------------------------------------ back end (from the spec)
\* acceptance threshold and score scale of the classical matcher
Threshold == 2

MaxScore == 3

Slots == 1..3

\* position of a catalog id in lexicographic order
IdRank(name) == CHOOSE i \in 1..Len(MonsterDb) : MonsterDb[i].name_zh = name

\* Template Bank: entries_for_day(day)
entries_for_day(day) ==
  { n \in MonsterNames : LookupMonster(MonsterDb, n).available = DayLabel(day) }

\* the day the matcher uses: the override when given, else the bridge's day
EffectiveDay(day, bridge) == IF day # NoDay THEN day ELSE bridge

SlotCandidates_strict(view, elig) == { n \in elig : view[n] > Threshold }

\* slot candidates at or above the threshold
SlotCandidates(view, elig) == { n \in elig : view[n] >= Threshold }

BestInSlot_largerId(view, elig) ==
  CHOOSE n \in SlotCandidates(view, elig) :
    \A m \in SlotCandidates(view, elig) :
      \/ view[n] > view[m]
      \/ view[n] = view[m] /\ IdRank(n) >= IdRank(m)

\* strictly higher score wins; on ties the smaller catalog id wins
BestInSlot(view, elig) ==
  CHOOSE n \in SlotCandidates(view, elig) :
    \A m \in SlotCandidates(view, elig) :
      \/ view[n] > view[m]
      \/ view[n] = view[m] /\ IdRank(n) <= IdRank(m)

RECURSIVE SlotResults(_, _, _)
SlotResults(frame, elig, slot) ==
  IF slot > 3 THEN << >>
  ELSE (IF SlotCandidates(frame[slot], elig) = {} THEN << >>
        ELSE << [name |-> BestInSlot(frame[slot], elig), position |-> slot] >>)
       \o SlotResults(frame, elig, slot + 1)

\* Classical Matcher + Candidate Resolver, monster mode
recognize_entities(frame, day) == SlotResults(frame, entries_for_day(day), 1)

\* confidence levels of the neural detector; a card frame holds at most one
\* detection per confidence level
MaxConf == 4

NoDet == "none"

RECURSIVE PointerQueryFrom(_, _, _)
PointerQueryFrom(frame, c, acc) ==
  IF c = 0 \/ Len(acc) = 3 THEN acc
  ELSE IF frame[c] = NoDet \/ frame[c] \in { acc[i].id : i \in 1..Len(acc) }
       THEN PointerQueryFrom(frame, c - 1, acc)
       ELSE PointerQueryFrom(frame, c - 1,
                             Append(acc, [id |-> frame[c], conf |-> c]))

\* Neural Detector, pointer-query mode: highest confidence first, distinct
\* entity ids, one primary plus at most two secondary candidates
recognize_card_at_mouse(frame) == PointerQueryFrom(frame, MaxConf, << >>)

\* get_item_info(id)
NullItem == [uuid |-> "", name_cn |-> ""]

get_item_info(id) ==
  IF id \in ItemsWithInfo THEN [uuid |-> id, name_cn |-> id] ELSE NullItem


\* ------------------------------------------------------- monster list view
\* App.tsx:1309-1313: index in identifiedNames, 999 when absent
SortPos(names, n) ==
  IF \E i \in 1..Len(names) : names[i] = n
  THEN (CHOOSE i \in 1..Len(names) :
          names[i] = n /\ \A j \in 1..(i - 1) : names[j] # n) - 1
  ELSE 999

RECURSIVE FilterSeq(_, _)
\* Object.values(allMonsters).filter(... m.available === targetDay)
FilterSeq(db, day) ==
  IF db = << >> THEN << >>
  ELSE (IF Head(db).name_zh # "" /\ Head(db).available = day
        THEN << Head(db) >> ELSE << >>) \o FilterSeq(Tail(db), day)

RECURSIVE InsertByPos(_, _, _)
\* stable insertion: m goes after every element whose position is <= its own
InsertByPos(sorted, m, names) ==
  IF sorted = << >> THEN << m >>
  ELSE IF SortPos(names, Head(sorted).name_zh) <= SortPos(names, m.name_zh)
       THEN << Head(sorted) >> \o InsertByPos(Tail(sorted), m, names)
       ELSE << m >> \o sorted

RECURSIVE SortByIdentified(_, _)
\* [...monstersOnDay].sort((a, b) => posA - posB), a stable sort
SortByIdentified(list, names) ==
  IF list = << >> THEN << >>
  ELSE InsertByPos(SortByIdentified(SubSeq(list, 1, Len(list) - 1), names),
                   list[Len(list)], names)

\* App.tsx:1287-1290
TargetDay(day, db) == IF day = "" /\ Len(db) > 0 THEN "Day 1" ELSE day

\* the list updateFilteredMonsters computes before its await
FilteredList(day, db, names) ==
  SortByIdentified(FilterSeq(db, TargetDay(day, db)), names)

\* App.tsx:1279-1283: the effect starts updateFilteredMonsters(selectedDay)
\* after a render in which one of its dependencies changed
FilterEffect(depsChanged) ==
  filterRuns' =
    IF depsChanged /\ activeTab' = "monster"
    THEN filterRuns
           (+) SetToBag({ [day |-> selectedDay',
                           list |-> FilteredList(selectedDay', allMonsters',
                                                 identifiedNames')] })
    ELSE filterRuns

\* App.tsx:1318-1319: a pending updateFilteredMonsters run finishes
FilterDone(run) ==
  /\ BagIn(run, filterRuns)
  /\ manualMonsters' = run.list
  /\ filterRuns' = filterRuns (-) SetToBag({ run })
  /\ UNCHANGED << activeTab, selectedDay, currentDay, allMonsters,
                  identifiedNames, expandedMonsters, isRecognizing,
                  isRecognizingCard, recognizedCards, errorMessage,
                  templateLoading, yolo_running, overlayVars, monsterTimers,
                  monsterCalls, cardCalls, cardPost, yoloCalls, yoloPost,
                  overlayCalls, overlayPost, polls, pollTimer, fetchDay, backendVars,
                  histVars >>
  /\ UNCHANGED componentVars

\* ----------------------------------------------------- monster recognition
\* App.tsx:951-959: 'trigger-monster-recognition' listener
TriggerMonsterRecognition(dayNum, limit) ==
  /\ requests < limit
  /\ requests' = requests + 1
  /\ IF dayNum # NoDay
     THEN /\ selectedDay' = DayLabel(dayNum)
          /\ currentDay' = dayNum
     ELSE UNCHANGED << selectedDay, currentDay >>
  /\ monsterTimers' = Append(monsterTimers, dayNum)
  /\ UNCHANGED << activeTab, allMonsters, identifiedNames >>
  /\ FilterEffect(selectedDay' # selectedDay)
  /\ UNCHANGED << manualMonsters, expandedMonsters, isRecognizing,
                  isRecognizingCard, recognizedCards, errorMessage,
                  templateLoading, yolo_running, overlayVars, monsterCalls,
                  cardCalls, cardPost, yoloCalls, yoloPost, overlayCalls,
                  overlayPost, polls, pollTimer, fetchDay, backendVars, issued,
                  arrivedIdle, dayOps, pollsSent, lastOutcome >>
  /\ UNCHANGED componentVars

BankRead_building ==
  [published |-> loading.built # {}, entries |-> loading.built]

\* the Template Bank as a matcher reads it: the published snapshot, if any
BankRead == bank


\* App.tsx:958 + 1567-1572: the 500 ms timer fires and calls
\* handleAutoRecognition(dayNum), which runs up to its await
MonsterTimerFire ==
  /\ monsterTimers # << >>
  /\ monsterTimers' = Tail(monsterTimers)
  /\ arrivedIdle' =
       [arrivedIdle EXCEPT !["monster"] =
          IF Len(monsterCalls) = 0 THEN @ + 1 ELSE @]
  /\ IF isRecognizing_closure
     THEN UNCHANGED << isRecognizing, monsterCalls, issued >>
     ELSE /\ isRecognizing' = TRUE
          /\ monsterCalls' =
               Append(monsterCalls,
                      [day |-> Head(monsterTimers),
                       ready |-> progress.is_complete,
                       seen |-> BankRead])
          /\ issued' = [issued EXCEPT !["monster"] = @ + 1]
  /\ UNCHANGED << activeTab, selectedDay, currentDay, allMonsters,
                  manualMonsters, identifiedNames, expandedMonsters,
                  isRecognizingCard, recognizedCards, errorMessage,
                  templateLoading, yolo_running, overlayVars, cardCalls,
                  cardPost, yoloCalls, yoloPost, overlayCalls, overlayPost,
                  filterRuns, polls, pollTimer, fetchDay, backendVars, requests,
                  dayOps, pollsSent, lastOutcome >>
  /\ UNCHANGED componentVars

\* a matcher whose answer depends on what an earlier invocation left behind
RecognizeOutcomes_biased(call, bridge, frames) ==
  IF ~call.ready
  THEN { [ok |-> FALSE, err |-> "Templates not loaded",
          frame |-> << >>, results |-> << >>] }
  ELSE { [ok |-> FALSE, err |-> "capture failed",
          frame |-> << >>, results |-> << >>] }
       \cup { [ok |-> TRUE, err |-> "",
               frame |-> f,
               results |-> IF identifiedNames = << >>
                           THEN recognize_entities(f, EffectiveDay(call.day,
                                                                   bridge))
                           ELSE << >>]
              : f \in frames }

\* recognize_monsters_from_screenshot (from the spec): TemplatesNotReady
\* when the bank was not published when the call arrived, else a capture
\* error or the matcher's result for the captured frame
RecognizeOutcomes(call, bridge, frames) ==
  IF ~call.ready
  THEN { [ok |-> FALSE, err |-> "Templates not loaded",
          frame |-> << >>, results |-> << >>] }
  ELSE { [ok |-> FALSE, err |-> "capture failed",
          frame |-> << >>, results |-> << >>] }
       \cup { [ok |-> TRUE, err |-> "",
               frame |-> f,
               results |-> recognize_entities(f, EffectiveDay(call.day, bridge))]
              : f \in frames }

RECURSIVE FillNames_mirrored(_, _)
FillNames_mirrored(results, names) ==
  IF results = << >> THEN names
  ELSE FillNames_mirrored(Tail(results),
                 IF Head(results).position >= 1 /\ Head(results).position <= 3
                 THEN [names EXCEPT ![4 - Head(results).position] =
                         Head(results).name]
                 ELSE names)

RECURSIVE FillNames(_, _)
\* App.tsx:1574-1577: names[r.position - 1] = r.name for positions 1..3
FillNames(results, names) ==
  IF results = << >> THEN names
  ELSE FillNames(Tail(results),
                 IF Head(results).position >= 1 /\ Head(results).position <= 3
                 THEN [names EXCEPT ![Head(results).position] = Head(results).name]
                 ELSE names)

\* App.tsx:1578: names.filter(n => n !== "")
ValidNames(results) ==
  SelectSeq(FillNames(results, << "", "", "" >>), LAMBDA n : n # "")

\* a catch block that clears the identified monsters on a failed call
NamesAfterRecognition_clearOnError(outcome, prev) ==
  IF outcome.ok /\ Len(outcome.results) > 0
  THEN ValidNames(outcome.results)
  ELSE IF outcome.ok THEN prev ELSE << >>

\* App.tsx:1572-1580 and 1618-1622: identifiedNames after the call returned
NamesAfterRecognition(outcome, prev) ==
  IF outcome.ok /\ Len(outcome.results) > 0
  THEN ValidNames(outcome.results)
  ELSE prev

\* App.tsx:1583-1590: validNames that are keys of (the closure's) allMonsters
ExpandedAfterRecognition(outcome, prev) ==
  IF outcome.ok /\ Len(outcome.results) > 0
  THEN prev \cup { n \in Range(ValidNames(outcome.results)) :
                     HasMonster(allMonsters_closure, n) }
  ELSE prev

\* App.tsx:1593-1614: the auto-switch of the Day tab fires
AutoSwitch(outcome) ==
  /\ outcome.ok
  /\ Len(outcome.results) > 0
  /\ Len(ValidNames(outcome.results)) > 0
  /\ HasMonster(allMonsters_closure, ValidNames(outcome.results)[1])
  /\ LookupMonster(allMonsters_closure,
                   ValidNames(outcome.results)[1]).available # ""
  /\ LookupMonster(allMonsters_closure,
                   ValidNames(outcome.results)[1]).available
       # selectedDay_closure

\* a finally block that resets the flag only when the try block threw nothing
GateAfterFinally_onlyOnSuccess(ok) == ~ok

\* the finally blocks (App.tsx:562-565, 996-998, 1101-1103, 1623-1625) reset
\* the gate flag whether the try block completed (ok) or threw
GateAfterFinally(ok) == FALSE

\* App.tsx:1572-1626: the continuation of handleAutoRecognition, run when
\* recognize_monsters_from_screenshot returns or throws
MonsterReturn(i, frames) ==
  /\ i \in 1..Len(monsterCalls)
  /\ \E outcome \in RecognizeOutcomes(monsterCalls[i], bridgeDay, frames) :
       /\ identifiedNames' = NamesAfterRecognition(outcome, identifiedNames)
       /\ expandedMonsters' =
            ExpandedAfterRecognition(outcome, expandedMonsters)
       /\ IF AutoSwitch(outcome)
          THEN /\ selectedDay' =
                    LookupMonster(allMonsters_closure,
                                  ValidNames(outcome.results)[1]).available
               /\ currentDay' =
                    IF HasDayNum(LookupMonster(allMonsters_closure,
                                   ValidNames(outcome.results)[1]).available)
                    THEN DayNumOfLabel(LookupMonster(allMonsters_closure,
                                   ValidNames(outcome.results)[1]).available)
                    ELSE currentDay
          ELSE UNCHANGED << selectedDay, currentDay >>
       /\ lastOutcome' = [kind |-> "monster", ok |-> outcome.ok,
                          err |-> outcome.err,
                          ready |-> monsterCalls[i].ready,
                          day |-> EffectiveDay(monsterCalls[i].day, bridgeDay),
                          frame |-> outcome.frame,
                          results |-> outcome.results,
                          repeat |->
                            /\ outcome.ok
                            /\ lastOutcome.kind = "monster"
                            /\ lastOutcome.ok
                            /\ lastOutcome.frame = outcome.frame
                            /\ lastOutcome.day =
                                 EffectiveDay(monsterCalls[i].day, bridgeDay)]
       /\ isRecognizing' = GateAfterFinally(outcome.ok)
       /\ UNCHANGED << activeTab, allMonsters >>
       /\ FilterEffect(outcome.ok /\ Len(outcome.results) > 0)
  /\ monsterCalls' = RemoveAt(monsterCalls, i)
  /\ UNCHANGED << manualMonsters, isRecognizingCard, recognizedCards,
                  errorMessage, templateLoading, yolo_running, overlayVars,
                  monsterTimers, cardCalls, cardPost, yoloCalls, yoloPost,
                  overlayCalls, overlayPost, polls, pollTimer, fetchDay, backendVars,
                  requests, issued, arrivedIdle, dayOps, pollsSent >>
  /\ UNCHANGED componentVars


\* -------------------------------------------------------- card recognition
\* App.tsx:962-965 + 526-532: 'hotkey-detect-card' listener calls
\* handleRecognizeCard(true), which runs up to its first await
HandleRecognizeCard(limit) ==
  /\ requests < limit
  /\ requests' = requests + 1
  /\ arrivedIdle' =
       [arrivedIdle EXCEPT !["card"] =
          IF cardCalls + Len(cardPost) = 0 THEN @ + 1 ELSE @]
  /\ IF isRecognizingCard_closure
     THEN UNCHANGED << activeTab, isRecognizingCard, errorMessage, cardCalls,
                       issued >>
     ELSE /\ activeTab' = "card"
          /\ isRecognizingCard' = TRUE
          /\ errorMessage' = "null"
          /\ cardCalls' = cardCalls + 1
          /\ issued' = [issued EXCEPT !["card"] = @ + 1]
  /\ UNCHANGED << selectedDay, allMonsters, identifiedNames >>
  /\ FilterEffect(activeTab' # activeTab)
  /\ UNCHANGED << currentDay, manualMonsters, expandedMonsters,
                  isRecognizing, recognizedCards, templateLoading,
                  yolo_running, overlayVars, monsterTimers, monsterCalls,
                  cardPost, yoloCalls, yoloPost, overlayCalls, overlayPost,
                  polls, pollTimer, fetchDay, backendVars, dayOps, pollsSent,
                  lastOutcome >>
  /\ UNCHANGED componentVars

\* card frames: one detection (or none) per confidence level
CardFrames == [1..MaxConf -> ItemIds \cup { NoDet }]

\* App.tsx:532-533, 556-565: recognize_card_at_mouse returns.  A non-empty
\* result suspends the handler again in the get_item_info loop; an empty
\* result or an exception ends it.
CardReturn(ok, frame) ==
  /\ cardCalls > 0
  /\ cardCalls' = cardCalls - 1
  /\ IF ok /\ Len(recognize_card_at_mouse(frame)) > 0
     THEN /\ cardPost' = Append(cardPost, recognize_card_at_mouse(frame))
          /\ UNCHANGED << errorMessage, isRecognizingCard, lastOutcome >>
     ELSE /\ errorMessage' = IF ok THEN "card_none" ELSE "card_error"
          /\ isRecognizingCard' = GateAfterFinally(ok)
          /\ lastOutcome' = [kind |-> "card", ok |-> ok,
                             err |-> IF ok THEN "" ELSE "inference",
                             ready |-> TRUE, day |-> NoDay,
                             frame |-> << >>, results |-> << >>]
          /\ UNCHANGED cardPost
  /\ UNCHANGED << activeTab, selectedDay, currentDay, allMonsters,
                  manualMonsters, identifiedNames, expandedMonsters,
                  isRecognizing, recognizedCards, templateLoading,
                  yolo_running, overlayVars, monsterTimers, monsterCalls,
                  yoloCalls, yoloPost, overlayCalls, overlayPost, filterRuns,
                  polls, pollTimer, fetchDay, backendVars, requests, issued,
                  arrivedIdle, dayOps, pollsSent >>
  /\ UNCHANGED componentVars

RECURSIVE FullInfos(_)
\* App.tsx:534-541: the ItemData of every result that has one, in result
\* order (conf is carried along to relate a card to its detection)
FullInfos(results) ==
  IF results = << >> THEN << >>
  ELSE (IF get_item_info(Head(results).id) # NullItem
        THEN << [uuid |-> get_item_info(Head(results).id).uuid,
                 name_cn |-> get_item_info(Head(results).id).name_cn,
                 conf |-> Head(results).conf] >>
        ELSE << >>) \o FullInfos(Tail(results))

CardsAfterRecognition_append(prev, fullInfos) == prev \o fullInfos

\* App.tsx:544: setRecognizedCards(fullInfos) replaces the list
CardsAfterRecognition(prev, fullInfos) == fullInfos

\* App.tsx:535-565: the get_item_info loop finished (or threw)
CardInfoDone(i, ok) ==
  /\ i \in 1..Len(cardPost)
  /\ cardPost' = RemoveAt(cardPost, i)
  /\ IF ok /\ Len(FullInfos(cardPost[i])) > 0
     THEN /\ recognizedCards' =
               CardsAfterRecognition(recognizedCards, FullInfos(cardPost[i]))
          /\ UNCHANGED errorMessage
     ELSE /\ errorMessage' = IF ok THEN "card_no_info" ELSE "card_error"
          /\ UNCHANGED recognizedCards
  /\ isRecognizingCard' = GateAfterFinally(ok)
  /\ lastOutcome' = [kind |-> "card", ok |-> ok,
                     err |-> IF ok THEN "" ELSE "get_item_info",
                     ready |-> TRUE, day |-> NoDay,
                     frame |-> << >>, results |-> cardPost[i]]
  /\ UNCHANGED << activeTab, selectedDay, currentDay, allMonsters,
                  manualMonsters, identifiedNames, expandedMonsters,
                  isRecognizing, templateLoading, yolo_running, overlayVars,
                  monsterTimers, monsterCalls, cardCalls, yoloCalls, yoloPost,
                  overlayCalls, overlayPost, filterRuns, polls, pollTimer, fetchDay,
                  backendVars, requests, issued, arrivedIdle, dayOps,
                  pollsSent >>
  /\ UNCHANGED componentVars

\* App.tsx:486, 564, 995: a setTimeout(() => setErrorMessage(null)) fires;
\* every handler that sets a message also schedules one
ErrorTimeout ==
  /\ errorMessage # "null"
  /\ errorMessage' = "null"
  /\ UNCHANGED << activeTab, selectedDay, currentDay, allMonsters,
                  manualMonsters, identifiedNames, expandedMonsters,
                  isRecognizing, isRecognizingCard, recognizedCards,
                  templateLoading, yolo_running, overlayVars, asyncVars,
                  backendVars, histVars >>
  /\ UNCHANGED componentVars

\* App.tsx:3273-3289: the cards shown on the card tab (visibleCount = 50)
visibleCount == 50

displayList(source) ==
  SubSeq(SelectSeq(source, LAMBDA item : item.name_cn # ""), 1,
         IF Len(SelectSeq(source, LAMBDA item : item.name_cn # "")) < visibleCount
         THEN Len(SelectSeq(source, LAMBDA item : item.name_cn # ""))
         ELSE visibleCount)

\* App.tsx:3298, 3327: isTopMatch = idx === 0 (idx is 0-based; here 1-based)
CardLabel(idx) == IF idx = 1 THEN "MATCH" ELSE "MAYBE"


\* --------------------------------------------------------- full-frame scan
\* The synchronous head of a scan handler: the __yolo_running check, the
\* early return and the finally block that runs on that return.
\* App.tsx:1082-1087 + 1101-1103 (runYoloScan), 974-979 + 996-998 (listener)
YoloStart(source, limit) ==
  /\ requests < limit
  /\ requests' = requests + 1
  /\ arrivedIdle' =
       [arrivedIdle EXCEPT !["yolo"] =
          IF Len(yoloCalls) + Len(yoloPost) = 0 THEN @ + 1 ELSE @]
  /\ IF yolo_running
     THEN /\ yolo_running' = FALSE
          /\ UNCHANGED << yoloCalls, issued >>
     ELSE /\ yolo_running' = TRUE
          /\ yoloCalls' = Append(yoloCalls, source)
          /\ issued' = [issued EXCEPT !["yolo"] = @ + 1]
  /\ UNCHANGED << appVars, overlayVars, monsterTimers, monsterCalls,
                  cardCalls, cardPost, yoloPost, overlayCalls, overlayPost,
                  filterRuns, polls, pollTimer, fetchDay, backendVars, dayOps,
                  pollsSent, lastOutcome >>
  /\ UNCHANGED componentVars

\* App.tsx:1078-1104: runYoloScan, called by the auto-scan timer (1114) and
\* by the 'yolo_hotkey_pressed' listener (1127-1130)
RunYoloScan(limit) == YoloStart("runYoloScan", limit)

\* App.tsx:968-999: 'trigger_yolo_scan' listener
TriggerYoloScanListener(limit) == YoloStart("listener", limit)

\* App.tsx:1089-1103 / 981-998: trigger_yolo_scan returns or throws.  On
\* success the handler suspends again (get_yolo_stats, emit); on failure the
\* catch and the finally block run.
YoloReturn(i, ok) ==
  /\ i \in 1..Len(yoloCalls)
  /\ yoloCalls' = RemoveAt(yoloCalls, i)
  /\ IF ok
     THEN /\ yoloPost' = Append(yoloPost, yoloCalls[i])
          /\ UNCHANGED << yolo_running, errorMessage, lastOutcome >>
     ELSE /\ yolo_running' = GateAfterFinally(ok)
          /\ errorMessage' =
               IF yoloCalls[i] = "listener" THEN "yolo_error"
               ELSE errorMessage
          /\ lastOutcome' = [kind |-> "yolo", ok |-> FALSE,
                             err |-> "inference", ready |-> TRUE,
                             day |-> NoDay,
                             frame |-> << >>, results |-> << >>]
          /\ UNCHANGED yoloPost
  /\ UNCHANGED << activeTab, selectedDay, currentDay, allMonsters,
                  manualMonsters, identifiedNames, expandedMonsters,
                  isRecognizing, isRecognizingCard, recognizedCards,
                  templateLoading, overlayVars, monsterTimers, monsterCalls,
                  cardCalls, cardPost, overlayCalls, overlayPost, filterRuns,
                  polls, pollTimer, fetchDay, backendVars, requests, issued,
                  arrivedIdle, dayOps, pollsSent >>
  /\ UNCHANGED componentVars

\* App.tsx:1093-1103 / 985-998: get_yolo_stats + emit finished (their
\* errors are caught by the inner try), then the finally block
YoloStatsDone(i) ==
  /\ i \in 1..Len(yoloPost)
  /\ yoloPost' = RemoveAt(yoloPost, i)
  /\ yolo_running' = GateAfterFinally(TRUE)
  /\ lastOutcome' = [kind |-> "yolo", ok |-> TRUE, err |-> "",
                     ready |-> TRUE, day |-> NoDay,
                     frame |-> << >>, results |-> << >>]
  /\ UNCHANGED << appVars, overlayVars, monsterTimers, monsterCalls,
                  cardCalls, cardPost, yoloCalls, overlayCalls, overlayPost,
                  filterRuns, polls, pollTimer, fetchDay, backendVars, requests,
                  issued, arrivedIdle, dayOps, pollsSent >>
  /\ UNCHANGED componentVars

\* ------------------------------------------------------------------ overlay
\* OverlayApp.tsx:130: the ref follows the state after every render
yoloResultRef_stale == "null"

yoloResultRef == yoloResult

\* OverlayApp.tsx:173-185: 'global-right-click' listener up to its await
GlobalRightClick(limit) ==
  /\ requests < limit
  /\ requests' = requests + 1
  /\ IF yoloResultRef # "null"
     THEN /\ yoloResult' = "null"
          /\ UNCHANGED << identifying, overlayCalls, issued, arrivedIdle >>
     ELSE /\ identifying' = TRUE
          /\ overlayCalls' = overlayCalls + 1
          /\ issued' = [issued EXCEPT !["overlay"] = @ + 1]
          /\ arrivedIdle' =
               [arrivedIdle EXCEPT !["overlay"] =
                  IF overlayCalls + Len(overlayPost) = 0 THEN @ + 1 ELSE @]
          /\ UNCHANGED yoloResult
  /\ UNCHANGED << appVars, yolo_running, monsterTimers, monsterCalls,
                  cardCalls, cardPost, yoloCalls, yoloPost, overlayPost,
                  filterRuns, polls, pollTimer, fetchDay, backendVars, dayOps,
                  pollsSent, lastOutcome >>
  /\ UNCHANGED componentVars

\* what handle_overlay_right_click can return
OverlayResults == { "null", "item", "monster", "error" }

\* OverlayApp.tsx:182-201: handle_overlay_right_click returns.  A non-null
\* result suspends the handler again while the images are resolved.
OverlayReturn(res) ==
  /\ overlayCalls > 0
  /\ overlayCalls' = overlayCalls - 1
  /\ IF res \in { "item", "monster" }
     THEN /\ overlayPost' = Append(overlayPost, res)
          /\ UNCHANGED << identifying, lastOutcome >>
     ELSE /\ identifying' = FALSE
          /\ lastOutcome' = [kind |-> "overlay", ok |-> res # "error",
                             err |-> IF res = "error" THEN "error" ELSE "",
                             ready |-> TRUE, day |-> NoDay,
                             frame |-> << >>, results |-> << >>]
          /\ UNCHANGED overlayPost
  /\ UNCHANGED << appVars, yolo_running, yoloResult, monsterTimers,
                  monsterCalls, cardCalls, cardPost, yoloCalls, yoloPost,
                  filterRuns, polls, pollTimer, fetchDay, backendVars, requests,
                  issued, arrivedIdle, dayOps, pollsSent >>
  /\ UNCHANGED componentVars

\* OverlayApp.tsx:188-201: images resolved, result shown, finally block
OverlayImagesDone(i) ==
  /\ i \in 1..Len(overlayPost)
  /\ overlayPost' = RemoveAt(overlayPost, i)
  /\ yoloResult' = overlayPost[i]
  /\ identifying' = FALSE
  /\ lastOutcome' = [kind |-> "overlay", ok |-> TRUE, err |-> "",
                     ready |-> TRUE, day |-> NoDay,
                     frame |-> << >>, results |-> << >>]
  /\ UNCHANGED << appVars, yolo_running, monsterTimers, monsterCalls,
                  cardCalls, cardPost, yoloCalls, yoloPost, overlayCalls,
                  filterRuns, polls, pollTimer, fetchDay, backendVars, requests,
                  issued, arrivedIdle, dayOps, pollsSent >>
  /\ UNCHANGED componentVars


\* ------------------------------------- template loading (from the spec)
\* App.tsx:150: the progress state before the first poll answers; the
\* tracker's own snapshot before loading has started is the same record
NoProgress == [loaded |-> 0, total |-> 0, is_complete |-> FALSE]

\* the Template Bank before its snapshot is published
NoBank == [published |-> FALSE, entries |-> {}]

\* LoadingProgress.is_complete as the loader sets it after an entry
CompleteAfter(loaded, total) == loaded = total

\* App.tsx:764-768: enterApp invokes start_template_loading; load_all
\* declares the catalog size
EnterApp ==
  /\ ~loaderStarted
  /\ loaderStarted' = TRUE
  /\ progress' = [loaded |-> 0, total |-> CatalogSize,
                  is_complete |-> CompleteAfter(0, CatalogSize)]
  /\ UNCHANGED << appVars, yolo_running, overlayVars, asyncVars, bridgeDay,
                  loading, bank, histVars >>
  /\ UNCHANGED componentVars

LoadedAfter_onlyLoaded(loaded, ok) == IF ok THEN loaded + 1 ELSE loaded

\* loaded_count after an entry was processed: a skipped entry counts too
LoadedAfter(loaded, ok) == loaded + 1

\* load_all: the next catalog entry is loaded (ok) or skipped as
\* missing/corrupt; after the last entry the bank is published
LoadStep(oks) ==
  /\ loaderStarted
  /\ loading.next <= CatalogSize
  /\ \E ok \in oks :
       /\ loading' = [next |-> loading.next + 1,
                      built |-> IF ok THEN loading.built \cup { loading.next }
                                ELSE loading.built]
       /\ progress' =
            [loaded |-> LoadedAfter(progress.loaded, ok),
             total |-> progress.total,
             is_complete |-> CompleteAfter(LoadedAfter(progress.loaded, ok),
                                           progress.total)]
  /\ bank' = IF loading.next = CatalogSize
             THEN [published |-> TRUE, entries |-> loading'.built]
             ELSE bank
  /\ UNCHANGED << appVars, yolo_running, overlayVars, asyncVars,
                  loaderStarted, bridgeDay, histVars >>
  /\ UNCHANGED componentVars

\* ------------------------------------------------------- progress polling
\* App.tsx:892: the 500 ms interval calls checkProgress, which invokes
\* get_template_loading_progress (875)
PollTick ==
  /\ pollTimer
  /\ pollsSent < MaxPolls
  /\ pollsSent' = pollsSent + 1
  /\ polls' = Append(polls, [served |-> FALSE, snap |-> NoProgress])
  /\ UNCHANGED << appVars, yolo_running, overlayVars, monsterTimers,
                  monsterCalls, cardCalls, cardPost, yoloCalls, yoloPost,
                  overlayCalls, overlayPost, filterRuns, pollTimer, fetchDay,
                  backendVars, requests, issued, arrivedIdle, dayOps,
                  lastOutcome >>
  /\ UNCHANGED componentVars

\* the same tick with no bound on the number of polls of a behaviour:
\* a tick is dropped while `limit` polls are unanswered
PollTickInFlight(limit) ==
  /\ pollTimer
  /\ Len(polls) < limit
  /\ polls' = Append(polls, [served |-> FALSE, snap |-> NoProgress])
  /\ UNCHANGED << appVars, yolo_running, overlayVars, monsterTimers,
                  monsterCalls, cardCalls, cardPost, yoloCalls, yoloPost,
                  overlayCalls, overlayPost, filterRuns, pollTimer, fetchDay,
                  backendVars, histVars >>
  /\ UNCHANGED componentVars

\* get_progress: the back end answers a poll with its current snapshot
PollServe(i) ==
  /\ i \in 1..Len(polls)
  /\ ~polls[i].served
  /\ polls' = [polls EXCEPT ![i] = [served |-> TRUE, snap |-> progress]]
  /\ UNCHANGED << appVars, yolo_running, overlayVars, monsterTimers,
                  monsterCalls, cardCalls, cardPost, yoloCalls, yoloPost,
                  overlayCalls, overlayPost, filterRuns, pollTimer, fetchDay,
                  backendVars, histVars >>
  /\ UNCHANGED componentVars

\* an update that copies the counters but keeps the old completion flag
ProgressAfterPoll_keepFlag(prev, snap) ==
  [snap EXCEPT !.is_complete = prev.is_complete]

\* App.tsx:876: setTemplateLoading(progress)
ProgressAfterPoll(prev, snap) == snap

\* a poller that stops at the first answer in which nothing is left to load
TimerAfterPoll_stopWhenNothingLeft(timer, snap) ==
  IF snap.loaded = snap.total THEN FALSE ELSE timer

\* App.tsx:879-882: if (progress.is_complete && timer) clearInterval(timer)
TimerAfterPoll(timer, snap) == IF snap.is_complete THEN FALSE ELSE timer

\* App.tsx:875-882: the continuation of checkProgress when a poll answers
PollDeliver(i) ==
  /\ i \in 1..Len(polls)
  /\ polls[i].served
  /\ templateLoading' = ProgressAfterPoll(templateLoading, polls[i].snap)
  /\ pollTimer' = TimerAfterPoll(pollTimer, polls[i].snap)
  /\ polls' = RemoveAt(polls, i)
  /\ UNCHANGED << activeTab, selectedDay, currentDay, allMonsters,
                  manualMonsters, identifiedNames, expandedMonsters,
                  isRecognizing, isRecognizingCard, recognizedCards,
                  errorMessage, yolo_running, overlayVars, monsterTimers,
                  monsterCalls, cardCalls, cardPost, yoloCalls, yoloPost,
                  overlayCalls, overlayPost, filterRuns, fetchDay,
                  backendVars, histVars >>
  /\ UNCHANGED componentVars


\* ------------------------------------------------- day and tab operations
\* App.tsx:642-661: the mount effect's get_current_day answers (the
\* closure's currentDay is null, so d !== currentDay holds)
FetchDayDone ==
  /\ fetchDay
  /\ fetchDay' = FALSE
  /\ currentDay' = bridgeDay
  /\ selectedDay' = DayLabel(bridgeDay)
  /\ UNCHANGED << activeTab, allMonsters, identifiedNames >>
  /\ FilterEffect(selectedDay' # selectedDay)
  /\ UNCHANGED << manualMonsters, expandedMonsters, isRecognizing,
                  isRecognizingCard, recognizedCards, errorMessage,
                  templateLoading, yolo_running, overlayVars, monsterTimers,
                  monsterCalls, cardCalls, cardPost, yoloCalls, yoloPost,
                  overlayCalls, overlayPost, polls, pollTimer, backendVars,
                  histVars >>
  /\ UNCHANGED componentVars

\* the day tabs of the monster tab (App.tsx:3179, 3188)
DayTabs == { DayLabel(d) : d \in 1..10 }

\* App.tsx:3182-3195 + 1556-1565: a day tab is clicked: setSelectedDay(d),
\* then handleDayChange(dayNum); update_day succeeds (ok) or fails
ClickDayTab(d, ok) ==
  /\ dayOps < MaxDayOps
  /\ dayOps' = dayOps + 1
  /\ activeTab = "monster"
  /\ d \in DayTabs
  /\ currentDay' = DayNumOfLabel(d)
  /\ selectedDay' = DayLabel(DayNumOfLabel(d))
  /\ bridgeDay' = IF ok THEN DayNumOfLabel(d) ELSE bridgeDay
  /\ UNCHANGED << activeTab, allMonsters, identifiedNames >>
  /\ FilterEffect(selectedDay' # selectedDay)
  /\ UNCHANGED << manualMonsters, expandedMonsters, isRecognizing,
                  isRecognizingCard, recognizedCards, errorMessage,
                  templateLoading, yolo_running, overlayVars, monsterTimers,
                  monsterCalls, cardCalls, cardPost, yoloCalls, yoloPost,
                  overlayCalls, overlayPost, polls, pollTimer, fetchDay,
                  progress, loaderStarted, loading, bank, requests, issued,
                  arrivedIdle,
                  pollsSent, lastOutcome >>
  /\ UNCHANGED componentVars

\* App.tsx:1055-1058: 'day-update' listener
DayUpdate(d) ==
  /\ dayOps < MaxDayOps
  /\ dayOps' = dayOps + 1
  /\ currentDay' = d
  /\ selectedDay' = DayLabel(d)
  /\ UNCHANGED << activeTab, allMonsters, identifiedNames >>
  /\ FilterEffect(selectedDay' # selectedDay)
  /\ UNCHANGED << manualMonsters, expandedMonsters, isRecognizing,
                  isRecognizingCard, recognizedCards, errorMessage,
                  templateLoading, yolo_running, overlayVars, monsterTimers,
                  monsterCalls, cardCalls, cardPost, yoloCalls, yoloPost,
                  overlayCalls, overlayPost, polls, pollTimer, fetchDay,
                  backendVars, requests, issued, arrivedIdle, pollsSent,
                  lastOutcome >>
  /\ UNCHANGED componentVars

\* App.tsx:1007-1027: 'auto-jump-to-monster' listener (names is the payload's
\* monster_name split at '|')
AutoJumpToMonster(day, names) ==
  /\ dayOps < MaxDayOps
  /\ dayOps' = dayOps + 1
  /\ currentDay' = day
  /\ selectedDay' = DayLabel(day)
  /\ identifiedNames' = names
  /\ expandedMonsters' = expandedMonsters \cup Range(names)
  /\ activeTab' = "monster"
  /\ UNCHANGED allMonsters
  /\ FilterEffect(TRUE)
  /\ UNCHANGED << manualMonsters, isRecognizing, isRecognizingCard,
                  recognizedCards, errorMessage, templateLoading,
                  yolo_running, overlayVars, monsterTimers, monsterCalls,
                  cardCalls, cardPost, yoloCalls, yoloPost, overlayCalls,
                  overlayPost, polls, pollTimer, fetchDay, backendVars,
                  requests, issued, arrivedIdle, pollsSent, lastOutcome >>
  /\ UNCHANGED componentVars

\* App.tsx:2798: a navigation tab is clicked
ClickTab(t) ==
  /\ dayOps < MaxDayOps
  /\ dayOps' = dayOps + 1
  /\ t # activeTab
  /\ activeTab' = t
  /\ UNCHANGED << selectedDay, allMonsters, identifiedNames >>
  /\ FilterEffect(TRUE)
  /\ UNCHANGED << currentDay, manualMonsters, expandedMonsters,
                  isRecognizing, isRecognizingCard, recognizedCards,
                  errorMessage, templateLoading, yolo_running, overlayVars,
                  monsterTimers, monsterCalls, cardCalls, cardPost, yoloCalls,
                  yoloPost, overlayCalls, overlayPost, polls, pollTimer,
                  fetchDay, backendVars, requests, issued, arrivedIdle,
                  pollsSent, lastOutcome >>
  /\ UNCHANGED componentVars

\* App.tsx:1230-1236: get_all_monsters answers with the database
AllMonstersLoaded ==
  /\ allMonsters = << >>
  /\ allMonsters' = MonsterDb
  /\ UNCHANGED << activeTab, selectedDay, identifiedNames >>
  /\ FilterEffect(TRUE)
  /\ UNCHANGED << currentDay, manualMonsters, expandedMonsters,
                  isRecognizing, isRecognizingCard, recognizedCards,
                  errorMessage, templateLoading, yolo_running, overlayVars,
                  monsterTimers, monsterCalls, cardCalls, cardPost, yoloCalls,
                  yoloPost, overlayCalls, overlayPost, polls, pollTimer,
                  fetchDay, backendVars, histVars >>
  /\ monstersCall
  /\ monstersCall' = FALSE
  /\ loadOutcome' = "loaded"
  /\ UNCHANGED << retryCount, retryTimer, getAllCalls, listenerVars,
                  pinVars, dragVars >>

\* =========================================================== components
\* --------------------------------------------- event listener lifecycle
\* the safeListen registrations setupListeners awaits one after another
NumSafeListeners == 2

MaxListenerEvents == 2

SafeListeners == 1..NumSafeListeners

\* the 'monsters-db-ready' listener
DbReady == 0

\* what get_all_monsters can answer: a database, empty or not, or a throw
MonsterResponses ==
  { [ok |-> TRUE, db |-> << >>],
    [ok |-> TRUE, db |-> MonsterDb],
    [ok |-> TRUE, db |-> SubSeq(MonsterDb, 1, 1)],
    [ok |-> FALSE, db |-> << >>] }

\* App.tsx:911-920: the listen() promise of the safeListen call
\* setupListeners is suspended at resolves; the listener is kept when the
\* component is still mounted and unregistered at once when it is not,
\* and setupListeners goes on to its next safeListen
SafeListenResolve ==
  /\ setupNext <= NumSafeListeners
  /\ setupNext' = setupNext + 1
  /\ IF isMounted
     THEN /\ unlisteners' = unlisteners \cup { setupNext }
          /\ registered' = registered \cup { setupNext }
     ELSE UNCHANGED << unlisteners, registered >>
  /\ UNCHANGED << isMounted, unlisten, dbListenPending, lateUpdates,
                  listenerEvents >>
  /\ UNCHANGED << appVars, yolo_running, overlayVars, asyncVars, backendVars,
                  histVars, loaderVars, pinVars, dragVars >>

\* App.tsx:1259-1269: the listen() promise of 'monsters-db-ready' resolves
\* and its unlisten function is stored, whether or not the cleanup ran
DbReadyListenResolve ==
  /\ dbListenPending
  /\ dbListenPending' = FALSE
  /\ unlisten' = TRUE
  /\ registered' = registered \cup { DbReady }
  /\ UNCHANGED << isMounted, setupNext, unlisteners, lateUpdates,
                  listenerEvents >>
  /\ UNCHANGED << appVars, yolo_running, overlayVars, asyncVars, backendVars,
                  histVars, loaderVars, pinVars, dragVars >>

\* App.tsx:1069-1073 and 1275: the cleanups of both effects at unmount
Unmount ==
  /\ isMounted
  /\ isMounted' = FALSE
  /\ registered' = (registered \ unlisteners)
                     \ (IF unlisten THEN { DbReady } ELSE {})
  /\ unlisteners' = {}
  /\ UNCHANGED << setupNext, unlisten, dbListenPending, lateUpdates,
                  listenerEvents >>
  /\ UNCHANGED << appVars, yolo_running, overlayVars, asyncVars, backendVars,
                  histVars, loaderVars, pinVars, dragVars >>

\* App.tsx:911-913: an event reaches a registered safeListen listener; the
\* wrapper runs the callback only while the component is mounted
DeliverSafe(i) ==
  /\ i \in registered \cap SafeListeners
  /\ listenerEvents < MaxListenerEvents
  /\ listenerEvents' = listenerEvents + 1
  /\ UNCHANGED << isMounted, setupNext, unlisteners, unlisten,
                  dbListenPending, registered, lateUpdates >>
  /\ UNCHANGED << appVars, yolo_running, overlayVars, asyncVars, backendVars,
                  histVars, loaderVars, pinVars, dragVars >>

\* App.tsx:1259-1266: 'monsters-db-ready' reaches the registered listener,
\* which calls get_all_monsters and setAllMonsters with whatever it answers
DeliverDbReady(res) ==
  /\ DbReady \in registered
  /\ listenerEvents < MaxListenerEvents
  /\ listenerEvents' = listenerEvents + 1
  /\ IF ~res.ok
     THEN UNCHANGED << appVars, filterRuns, lateUpdates >>
     ELSE IF isMounted
          THEN /\ allMonsters' = res.db
               /\ UNCHANGED << activeTab, selectedDay, identifiedNames >>
               /\ FilterEffect(TRUE)
               /\ UNCHANGED << currentDay, manualMonsters, expandedMonsters,
                               isRecognizing, isRecognizingCard,
                               recognizedCards, errorMessage, templateLoading,
                               lateUpdates >>
          ELSE /\ lateUpdates' = lateUpdates + 1
               /\ UNCHANGED << appVars, filterRuns >>
  /\ UNCHANGED << isMounted, setupNext, unlisteners, unlisten,
                  dbListenPending, registered >>
  /\ UNCHANGED << yolo_running, overlayVars, monsterTimers, monsterCalls,
                  cardCalls, cardPost, yoloCalls, yoloPost, overlayCalls,
                  overlayPost, polls, pollTimer, fetchDay, backendVars,
                  histVars, loaderVars, pinVars, dragVars >>

\* ------------------------------------------------------- loadAllMonsters
\* App.tsx:1228
maxRetries == 15

CanRetry_inclusive(count) == count <= maxRetries

\* App.tsx:1239
CanRetry(count) == count < maxRetries

\* App.tsx:1232: res && Object.keys(res).length > 0
NonEmpty(db) == Len(db) > 0

\* App.tsx:1230-1249: get_all_monsters answers loadAllMonsters
LoadAllMonstersReturn(res) ==
  /\ monstersCall
  /\ monstersCall' = FALSE
  /\ IF ~res.ok
     THEN /\ loadOutcome' = "threw"
          /\ UNCHANGED << appVars, filterRuns, retryCount, retryTimer >>
     ELSE IF NonEmpty(res.db)
          THEN /\ loadOutcome' = "loaded"
               /\ allMonsters' = res.db
               /\ UNCHANGED << activeTab, selectedDay, identifiedNames >>
               /\ FilterEffect(TRUE)
               /\ UNCHANGED << currentDay, manualMonsters, expandedMonsters,
                               isRecognizing, isRecognizingCard,
                               recognizedCards, errorMessage, templateLoading,
                               retryCount, retryTimer >>
          ELSE /\ IF CanRetry(retryCount)
                  THEN /\ retryCount' = retryCount + 1
                       /\ retryTimer' = TRUE
                       /\ UNCHANGED loadOutcome
                  ELSE /\ loadOutcome' = "gave up"
                       /\ UNCHANGED << retryCount, retryTimer >>
               /\ UNCHANGED << appVars, filterRuns >>
  /\ UNCHANGED getAllCalls
  /\ UNCHANGED << yolo_running, overlayVars, monsterTimers, monsterCalls,
                  cardCalls, cardPost, yoloCalls, yoloPost, overlayCalls,
                  overlayPost, polls, pollTimer, fetchDay, backendVars,
                  histVars, listenerVars, pinVars, dragVars >>

\* App.tsx:1242: setTimeout(loadAllMonsters, 1000) fires
LoadRetryTimerFire ==
  /\ retryTimer
  /\ retryTimer' = FALSE
  /\ monstersCall' = TRUE
  /\ getAllCalls' = getAllCalls + 1
  /\ UNCHANGED << retryCount, loadOutcome >>
  /\ UNCHANGED << appVars, yolo_running, overlayVars, asyncVars, backendVars,
                  histVars, listenerVars, pinVars, dragVars >>

\* ------------------------------------------------------------ pinned items
MaxItems == 3

MaxPinOps == 3

MaxSyncs == 1

\* the items a 'sync-items' payload can carry: with an instance_id (hand
\* and stash) or without one (card recognition)
ItemRecs ==
  { [instance_id |-> "i1", uuid |-> "u1"],
    [instance_id |-> "", uuid |-> "u1"],
    [instance_id |-> "", uuid |-> "u2"] }

RECURSIVE ItemLists(_)
ItemLists(n) ==
  IF n = 0 THEN { << >> }
  ELSE ItemLists(n - 1)
         \cup { Append(l, a) : l \in { m \in ItemLists(n - 1) :
                                          Len(m) = n - 1 },
                               a \in ItemRecs }

\* the hands a 'sync-items' payload can carry
HandLists == ItemLists(MaxItems)

\* the ids togglePin is called with
PinKeys == { "i1", "u1", "u2" }

\* App.tsx:673, 697: item.instance_id || item.uuid
ItemKey(a) == IF a.instance_id # "" THEN a.instance_id ELSE a.uuid

\* App.tsx:675: pinnedItems.get(aId) || pinnedItems.get(a.uuid); 0 stands
\* for undefined
PinOf(pins, a) ==
  IF pins[ItemKey(a)] # 0 THEN pins[ItemKey(a)] ELSE pins[a.uuid]

SortCompare_oldestFirst(pins, a, b) ==
  IF PinOf(pins, a) # 0 /\ PinOf(pins, b) # 0
  THEN PinOf(pins, a) - PinOf(pins, b)
  ELSE IF PinOf(pins, a) # 0 THEN -1
  ELSE IF PinOf(pins, b) # 0 THEN 1
  ELSE 0

\* App.tsx:671-683: the comparator of getSortedItems
SortCompare(pins, a, b) ==
  IF PinOf(pins, a) # 0 /\ PinOf(pins, b) # 0
  THEN PinOf(pins, b) - PinOf(pins, a)
  ELSE IF PinOf(pins, a) # 0 THEN -1
  ELSE IF PinOf(pins, b) # 0 THEN 1
  ELSE 0

RECURSIVE InsertItem(_, _, _)
\* stable insertion: x goes after every element that does not sort after it
InsertItem(sorted, x, pins) ==
  IF sorted = << >> THEN << x >>
  ELSE IF SortCompare(pins, Head(sorted), x) <= 0
       THEN << Head(sorted) >> \o InsertItem(Tail(sorted), x, pins)
       ELSE << x >> \o sorted

RECURSIVE SortItems(_, _)
\* App.tsx:671: [...items].sort(comparator), a stable sort
SortItems(list, pins) ==
  IF list = << >> THEN << >>
  ELSE InsertItem(SortItems(SubSeq(list, 1, Len(list) - 1), pins),
                  list[Len(list)], pins)

RECURSIVE DedupByKey(_, _)
\* App.tsx:687-702: sorted.filter with the seen set
DedupByKey(list, seen) ==
  IF list = << >> THEN << >>
  ELSE IF ItemKey(Head(list)) \in seen
       THEN DedupByKey(Tail(list), seen)
       ELSE << Head(list) >>
              \o DedupByKey(Tail(list), seen \cup { ItemKey(Head(list)) })

\* App.tsx:669-703
getSortedItems(items, pins) == DedupByKey(SortItems(items, pins), {})

\* App.tsx:927-948: 'sync-items' replaces the hand; the next render sorts it
SyncItems(list) ==
  /\ syncs < MaxSyncs
  /\ syncs' = syncs + 1
  /\ handItems' = list
  /\ shownItems' = getSortedItems(list, pinnedItems)
  /\ UNCHANGED << pinnedItems, pinnedCounter, pinLog, pinOps >>
  /\ UNCHANGED << appVars, yolo_running, overlayVars, asyncVars, backendVars,
                  histVars, listenerVars, loaderVars, dragVars >>

\* App.tsx:494-506: togglePin, and the render that follows it
TogglePin(id) ==
  /\ pinOps < MaxPinOps
  /\ pinOps' = pinOps + 1
  /\ IF pinnedItems[id] # 0
     THEN /\ pinnedItems' = [pinnedItems EXCEPT ![id] = 0]
          /\ UNCHANGED << pinnedCounter, pinLog >>
     ELSE /\ pinnedItems' = [pinnedItems EXCEPT ![id] = pinnedCounter + 1]
          /\ pinnedCounter' = pinnedCounter + 1
          /\ pinLog' = Append(pinLog, pinnedCounter + 1)
  /\ shownItems' = getSortedItems(handItems, pinnedItems')
  /\ UNCHANGED << handItems, syncs >>
  /\ UNCHANGED << appVars, yolo_running, overlayVars, asyncVars, backendVars,
                  histVars, listenerVars, loaderVars, dragVars >>

\* ------------------------------------------------------------ useDraggable
MaxCoord == 1

MaxMouseEvents == 4

\* useDraggable.ts:3: the default initialPos
initialPos == [x |-> 100, y |-> 100]

\* no storageKey argument
NoKey == ""

\* clientX, clientY of a mouse event
Pointers == [x : 0..MaxCoord, y : 0..MaxCoord]

\* the positions a widget can reach from initialPos: a drag takes two
\* events and moves the widget by at most MaxCoord
MaxDrift == MaxCoord * (MaxMouseEvents \div 2)

Positions ==
  [x : (initialPos.x - MaxDrift)..(initialPos.x + MaxDrift),
   y : (initialPos.y - MaxDrift)..(initialPos.y + MaxDrift)]

\* event targets: a plain element, a button, an element inside a button,
\* an element of class no-drag
Targets ==
  { [tagName |-> "DIV", inButton |-> FALSE, noDrag |-> FALSE],
    [tagName |-> "BUTTON", inButton |-> TRUE, noDrag |-> FALSE],
    [tagName |-> "SPAN", inButton |-> TRUE, noDrag |-> FALSE],
    [tagName |-> "DIV", inButton |-> FALSE, noDrag |-> TRUE] }

Digits == << "0", "1", "2", "3", "4", "5", "6", "7", "8", "9" >>

RECURSIVE NatStr(_)
NatStr(n) ==
  IF n < 10 THEN Digits[n + 1]
  ELSE NatStr(n \div 10) \o Digits[(n % 10) + 1]

NumStr(n) == IF n < 0 THEN "-" \o NatStr(0 - n) ELSE NatStr(n)

\* useDraggable.ts:66: JSON.stringify(finalPos)
JSONStringify(p) == "{\"x\":" \o NumStr(p.x) \o ",\"y\":" \o NumStr(p.y) \o "}"

\* useDraggable.ts:5-16: getSavedPosition
getSavedPosition(key, saved) ==
  IF key = NoKey THEN initialPos
  ELSE IF saved = "null" THEN initialPos
  ELSE IF \E p \in Positions : JSONStringify(p) = saved
       THEN CHOOSE p \in Positions : JSONStringify(p) = saved
       ELSE initialPos

\* useDraggable.ts:28-31
DragBlocked_buttonsOnly(t) == t.tagName = "BUTTON" \/ t.inButton

DragBlocked(t) == t.tagName = "BUTTON" \/ t.inButton \/ t.noDrag

\* useDraggable.ts:18-20: the first render of a component using the hook
UseDraggable(key) ==
  /\ ~dragMounted
  /\ dragMounted' = TRUE
  /\ storageKey' = key
  /\ position' = getSavedPosition(key, stored)
  /\ isDragging' = FALSE
  /\ offset' = [x |-> 0, y |-> 0]
  /\ UNCHANGED << stored, dragOpen, mouseEvents >>
  /\ UNCHANGED << appVars, yolo_running, overlayVars, asyncVars, backendVars,
                  histVars, listenerVars, loaderVars, pinVars >>

\* the component is unmounted and mounted again: a new hook instance
DragRemount ==
  /\ dragMounted
  /\ mouseEvents < MaxMouseEvents
  /\ mouseEvents' = mouseEvents + 1
  /\ position' = getSavedPosition(storageKey, stored)
  /\ isDragging' = FALSE
  /\ offset' = [x |-> 0, y |-> 0]
  /\ dragOpen' = FALSE
  /\ UNCHANGED << dragMounted, storageKey, stored >>
  /\ UNCHANGED << appVars, yolo_running, overlayVars, asyncVars, backendVars,
                  histVars, listenerVars, loaderVars, pinVars >>

\* useDraggable.ts:22-40: handleMouseDown
MouseDown(button, t, pt) ==
  /\ dragMounted
  /\ mouseEvents < MaxMouseEvents
  /\ mouseEvents' = mouseEvents + 1
  /\ IF button # 0 \/ DragBlocked(t)
     THEN UNCHANGED << isDragging, offset >>
     ELSE /\ isDragging' = TRUE
          /\ offset' = [x |-> pt.x - position.x, y |-> pt.y - position.y]
  /\ dragOpen' = (dragOpen \/ (button = 0 /\ t.tagName # "BUTTON"
                                 /\ ~t.inButton /\ ~t.noDrag))
  /\ UNCHANGED << dragMounted, storageKey, position, stored >>
  /\ UNCHANGED << appVars, yolo_running, overlayVars, asyncVars, backendVars,
                  histVars, listenerVars, loaderVars, pinVars >>

\* useDraggable.ts:43-50: handleMouseMove
MouseMove(pt) ==
  /\ dragMounted
  /\ mouseEvents < MaxMouseEvents
  /\ mouseEvents' = mouseEvents + 1
  /\ position' = IF isDragging
                 THEN [x |-> pt.x - offset.x, y |-> pt.y - offset.y]
                 ELSE position
  /\ UNCHANGED << dragMounted, storageKey, isDragging, offset, stored,
                  dragOpen >>
  /\ UNCHANGED << appVars, yolo_running, overlayVars, asyncVars, backendVars,
                  histVars, listenerVars, loaderVars, pinVars >>

\* useDraggable.ts:52-66: handleMouseUp
MouseUp(pt) ==
  /\ dragMounted
  /\ mouseEvents < MaxMouseEvents
  /\ mouseEvents' = mouseEvents + 1
  /\ IF isDragging
     THEN /\ position' = [x |-> pt.x - offset.x, y |-> pt.y - offset.y]
          /\ stored' = IF storageKey # NoKey
                       THEN JSONStringify([x |-> pt.x - offset.x,
                                           y |-> pt.y - offset.y])
                       ELSE stored
          /\ isDragging' = FALSE
     ELSE UNCHANGED << position, stored, isDragging >>
  /\ dragOpen' = FALSE
  /\ UNCHANGED << dragMounted, storageKey, offset >>
  /\ UNCHANGED << appVars, yolo_running, overlayVars, asyncVars, backendVars,
                  histVars, listenerVars, loaderVars, pinVars >>

\* the state of the components above after the first render and its mount
\* effects: the listen() calls (App.tsx:927, 1259) and the first
\* get_all_monsters call (1251) are under way; nothing uses the hook yet
InitComponents ==
  /\ isMounted = TRUE
  /\ setupNext = 1
  /\ unlisteners = {}
  /\ unlisten = FALSE
  /\ dbListenPending = TRUE
  /\ registered = {}
  /\ lateUpdates = 0
  /\ listenerEvents = 0
  /\ retryCount = 0
  /\ monstersCall = TRUE
  /\ retryTimer = FALSE
  /\ getAllCalls = 1
  /\ loadOutcome = "none"
  /\ pinnedItems = [k \in PinKeys |-> 0]
  /\ pinnedCounter = 0
  /\ handItems = << >>
  /\ shownItems = << >>
  /\ pinLog = << >>
  /\ pinOps = 0
  /\ syncs = 0
  /\ dragMounted = FALSE
  /\ storageKey = NoKey
  /\ position = initialPos
  /\ isDragging = FALSE
  /\ offset = [x |-> 0, y |-> 0]
  /\ stored = "null"
  /\ dragOpen = FALSE
  /\ mouseEvents = 0

\* ------------------------------------------------------------ initial state
\* the state after the first render and its mount effects: one progress
\* poll (App.tsx:889), get_current_day (658) and the first
\* updateFilteredMonsters run (1279-1283) are under way
Init ==
  /\ activeTab = "monster"
  /\ selectedDay = ""
  /\ currentDay = NoDay
  /\ allMonsters = << >>
  /\ manualMonsters = << >>
  /\ identifiedNames = << >>
  /\ expandedMonsters = {}
  /\ isRecognizing = FALSE
  /\ isRecognizingCard = FALSE
  /\ recognizedCards = << >>
  /\ errorMessage = "null"
  /\ templateLoading = NoProgress
  /\ yolo_running = FALSE
  /\ yoloResult = "null"
  /\ identifying = FALSE
  /\ monsterTimers = << >>
  /\ monsterCalls = << >>
  /\ cardCalls = 0
  /\ cardPost = << >>
  /\ yoloCalls = << >>
  /\ yoloPost = << >>
  /\ overlayCalls = 0
  /\ overlayPost = << >>
  /\ filterRuns = SetToBag({ [day |-> "", list |-> << >>] })
  /\ polls = << [served |-> FALSE, snap |-> NoProgress] >>
  /\ pollTimer = TRUE
  /\ fetchDay = TRUE
  /\ progress = NoProgress
  /\ loaderStarted = FALSE
  /\ loading = [next |-> 1, built |-> {}]
  /\ bank = NoBank
  /\ bridgeDay = 1
  /\ requests = 0
  /\ issued = [k \in Kinds |-> 0]
  /\ arrivedIdle = [k \in Kinds |-> 0]
  /\ dayOps = 0
  /\ pollsSent = 0
  /\ lastOutcome = [kind |-> "none", ok |-> TRUE, err |-> "", ready |-> TRUE,
                    day |-> NoDay,
                    frame |-> << >>, results |-> << >>]
  /\ InitComponents

\* ----------------------------------------------- the recognition triggers
\* what the slots of a captured frame show: a score per catalog entry
BlankView == [n \in MonsterNames |-> 0]

GateFrames ==
  { [s \in Slots |-> BlankView],
    [s \in Slots |-> IF s = 1 THEN [n \in MonsterNames |->
                                      IF n = "A" THEN MaxScore ELSE 0]
                     ELSE BlankView] }

GateCardFrames ==
  { [c \in 1..MaxConf |-> NoDet],
    [c \in 1..MaxConf |-> IF c = MaxConf THEN "a" ELSE NoDet],
    [c \in 1..MaxConf |-> IF c = MaxConf THEN "d" ELSE NoDet] }

Next ==
  \/ \E d \in { NoDay, 1 } : TriggerMonsterRecognition(d, MaxRequests)
  \/ MonsterTimerFire
  \/ \E i \in 1..MaxRequests : MonsterReturn(i, GateFrames)
  \/ HandleRecognizeCard(MaxRequests)
  \/ \E ok \in BOOLEAN, f \in GateCardFrames : CardReturn(ok, f)
  \/ \E i \in 1..MaxRequests, ok \in BOOLEAN : CardInfoDone(i, ok)
  \/ ErrorTimeout
  \/ RunYoloScan(MaxRequests)
  \/ TriggerYoloScanListener(MaxRequests)
  \/ \E i \in 1..MaxRequests, ok \in BOOLEAN : YoloReturn(i, ok)
  \/ \E i \in 1..MaxRequests : YoloStatsDone(i)
  \/ GlobalRightClick(MaxRequests)
  \/ \E res \in OverlayResults : OverlayReturn(res)
  \/ \E i \in 1..MaxRequests : OverlayImagesDone(i)
  \/ \E run \in BagToSet(filterRuns) : FilterDone(run)
  \/ EnterApp
  \/ LoadStep({ TRUE })

Spec == Init /\ [][Next]_vars


\* the recognition triggers and the template loader, for liveness
NextLive ==
  \/ \E d \in { NoDay, 1 } : TriggerMonsterRecognition(d, MaxLiveRequests)
  \/ MonsterTimerFire
  \/ \E i \in 1..MaxRequests : MonsterReturn(i, GateFrames)
  \/ HandleRecognizeCard(MaxLiveRequests)
  \/ \E ok \in BOOLEAN, f \in GateCardFrames : CardReturn(ok, f)
  \/ \E i \in 1..MaxRequests, ok \in BOOLEAN : CardInfoDone(i, ok)
  \/ ErrorTimeout
  \/ RunYoloScan(MaxLiveRequests)
  \/ TriggerYoloScanListener(MaxLiveRequests)
  \/ \E i \in 1..MaxRequests, ok \in BOOLEAN : YoloReturn(i, ok)
  \/ \E i \in 1..MaxRequests : YoloStatsDone(i)
  \/ \E run \in BagToSet(filterRuns) : FilterDone(run)
  \/ EnterApp
  \/ LoadStep({ TRUE })

\* fairness: a back-end call that was issued returns, and the event loop
\* runs the continuation and the timers that are due
FairSpec ==
  /\ Init
  /\ [][NextLive]_vars
  /\ WF_vars(MonsterTimerFire)
  /\ WF_vars(\E i \in 1..MaxRequests : MonsterReturn(i, GateFrames))
  /\ WF_vars(\E ok \in BOOLEAN, f \in GateCardFrames : CardReturn(ok, f))
  /\ WF_vars(\E i \in 1..MaxRequests, ok \in BOOLEAN : CardInfoDone(i, ok))
  /\ WF_vars(\E i \in 1..MaxRequests, ok \in BOOLEAN : YoloReturn(i, ok))
  /\ WF_vars(\E i \in 1..MaxRequests : YoloStatsDone(i))

\* ================================================================ properties
\* recognition back-end calls in flight
InFlight == Len(monsterCalls) + cardCalls + Len(yoloCalls) + overlayCalls

\* C1: under any interleaving of triggers, at most one recognition back-end
\* call (recognize_monsters_from_screenshot, recognize_card_at_mouse,
\* trigger_yolo_scan, handle_overlay_right_click) is in flight at any instant
C1_AtMostOneInFlight == InFlight <= 1

\* C2: a second request for the same operation arriving while the first is
\* in flight issues no second back-end call: the calls issued equal the
\* requests that arrived while no call of that kind was in flight
C2_DuplicateRejected ==
  \A k \in { "monster", "card" } : issued[k] = arrivedIdle[k]

\* full-frame scan invocations that were accepted and have not finished
YoloAlive == Len(yoloCalls) + Len(yoloPost)

\* C3: the gate leaves Running only when the invocation that set it
\* completes or fails; a skipped request leaves __yolo_running set
C3_GateLeftOnlyByOwner ==
  [][(yolo_running /\ ~yolo_running') => YoloAlive' < YoloAlive]_vars

\* no accepted invocation of the kind is under way
Quiet(k) ==
  CASE k = "monster" -> Len(monsterCalls) = 0
    [] k = "card" -> cardCalls + Len(cardPost) = 0
    [] k = "yolo" -> YoloAlive = 0

GateFlag(k) ==
  CASE k = "monster" -> isRecognizing
    [] k = "card" -> isRecognizingCard
    [] k = "yolo" -> yolo_running

GatedKinds == { "monster", "card", "yolo" }

\* C4: every accepted invocation, whatever its outcome, returns its gate
\* flag to Idle once the back-end call has returned (no flag is set while no
\* invocation is under way, and a set flag is eventually reset), and the
\* next request arriving after that is accepted
C4_GateReturnsToIdle ==
  /\ [](\A k \in GatedKinds : Quiet(k) => ~GateFlag(k))
  /\ [][\A k \in GatedKinds :
          arrivedIdle'[k] > arrivedIdle[k] => issued'[k] > issued[k]]_vars
  /\ \A k \in GatedKinds : GateFlag(k) ~> ~GateFlag(k)

\* a failed invocation has ended and its gate is Idle again
C4_Witness ==
  /\ lastOutcome.kind \in GatedKinds
  /\ ~lastOutcome.ok
  /\ Quiet(lastOutcome.kind)
  /\ ~GateFlag(lastOutcome.kind)
  /\ issued[lastOutcome.kind] >= 2

\* the step is the return of a monster recognition call that arrived before
\* the template bank was published
NotReadyReturn ==
  \E i \in 1..Len(monsterCalls) :
    /\ ~monsterCalls[i].ready
    /\ monsterCalls' = RemoveAt(monsterCalls, i)

\* C7: a monster recognition request that arrives before template loading
\* has finished fails with the templates-not-ready error, leaves the
\* identified-monster list unchanged and is not re-issued: no timer and no
\* further recognition call is created by its failure
C7_NotReadyNoRetry ==
  [][NotReadyReturn =>
       /\ lastOutcome'.kind = "monster"
       /\ ~lastOutcome'.ok
       /\ lastOutcome'.err = "Templates not loaded"
       /\ identifiedNames' = identifiedNames
       /\ monsterTimers' = monsterTimers
       /\ issued' = issued]_vars

\* a not-ready request failed while monsters were already identified
C7_Witness ==
  /\ lastOutcome.kind = "monster"
  /\ lastOutcome.err = "Templates not loaded"
  /\ ~lastOutcome.ready
  /\ identifiedNames # << >>


\* --------------------------------------- template loading and its poller
NextProgress ==
  \/ EnterApp
  \/ LoadStep(BOOLEAN)
  \/ PollTick
  \/ \E i \in 1..(MaxPolls + 1) : PollServe(i)
  \/ \E i \in 1..(MaxPolls + 1) : PollDeliver(i)

SpecProgress == Init /\ [][NextProgress]_vars

\* C5: once is_complete has been observed true, no later observed progress
\* state has is_complete = false, for the tracker's snapshot and for the
\* front end's templateLoading, whatever the order in which the answers of
\* overlapping polls arrive
C5_CompletionMonotonic ==
  [][/\ progress.is_complete => progress'.is_complete
     /\ templateLoading.is_complete => templateLoading'.is_complete]_vars

\* the progress records that can be observed: the tracker's snapshot, the
\* answers of the polls and the front end's copy
Observed ==
  { progress, templateLoading }
    \cup { polls[i].snap : i \in { j \in 1..Len(polls) : polls[j].served } }

ViewAB == [n \in MonsterNames |->
             IF n = "A" THEN Threshold ELSE IF n = "B" THEN MaxScore ELSE 0]

ViewC == [n \in MonsterNames |-> IF n = "C" THEN MaxScore ELSE 0]

MonsterFrames ==
  { [s \in Slots |-> BlankView],
    [s \in Slots |-> IF s = 1 THEN ViewAB
                     ELSE IF s = 2 THEN ViewC ELSE BlankView],
    [s \in Slots |-> IF s = 2 THEN ViewC ELSE BlankView] }

NextMonster ==
  \/ FetchDayDone
  \/ \E d \in { "Day 1", "Day 2" }, ok \in BOOLEAN : ClickDayTab(d, ok)
  \/ \E d \in 1..2 : DayUpdate(d)
  \/ \E t \in { "monster", "card" } : ClickTab(t)
  \/ AllMonstersLoaded
  \/ \E run \in BagToSet(filterRuns) : FilterDone(run)
  \/ \E d \in { NoDay, 2 } : TriggerMonsterRecognition(d, MaxMonsterRequests)
  \/ MonsterTimerFire
  \/ \E i \in 1..MaxMonsterRequests : MonsterReturn(i, MonsterFrames)

\* the monster tab once the template bank has been published
InitMonster ==
  /\ activeTab = "monster"
  /\ selectedDay = ""
  /\ currentDay = NoDay
  /\ allMonsters = << >>
  /\ manualMonsters = << >>
  /\ identifiedNames = << >>
  /\ expandedMonsters = {}
  /\ isRecognizing = FALSE
  /\ isRecognizingCard = FALSE
  /\ recognizedCards = << >>
  /\ errorMessage = "null"
  /\ templateLoading = NoProgress
  /\ yolo_running = FALSE
  /\ yoloResult = "null"
  /\ identifying = FALSE
  /\ monsterTimers = << >>
  /\ monsterCalls = << >>
  /\ cardCalls = 0
  /\ cardPost = << >>
  /\ yoloCalls = << >>
  /\ yoloPost = << >>
  /\ overlayCalls = 0
  /\ overlayPost = << >>
  /\ filterRuns = SetToBag({ [day |-> "", list |-> << >>] })
  /\ polls = << [served |-> FALSE, snap |-> NoProgress] >>
  /\ pollTimer = TRUE
  /\ fetchDay = TRUE
  /\ progress = [loaded |-> CatalogSize, total |-> CatalogSize,
                 is_complete |-> CompleteAfter(CatalogSize, CatalogSize)]
  /\ loaderStarted = TRUE
  /\ loading = [next |-> CatalogSize + 1, built |-> 1..CatalogSize]
  /\ bank = [published |-> TRUE, entries |-> 1..CatalogSize]
  /\ bridgeDay = 1
  /\ requests = 0
  /\ issued = [k \in Kinds |-> 0]
  /\ arrivedIdle = [k \in Kinds |-> 0]
  /\ dayOps = 0
  /\ pollsSent = 0
  /\ lastOutcome = [kind |-> "none", ok |-> TRUE, err |-> "", ready |-> TRUE,
                    day |-> NoDay,
                    frame |-> << >>, results |-> << >>]
  /\ InitComponents

SpecMonster == InitMonster /\ [][NextMonster]_vars

\* C8: an entity whose availability does not match the supplied day never
\* appears in the output of recognize_entities(day), and the monster list
\* shown for a selected day (once the pending list updates have finished)
\* contains only monsters whose available field equals that day
C8_DayFilter ==
  /\ (lastOutcome.kind = "monster" /\ lastOutcome.ok) =>
       \A i \in 1..Len(lastOutcome.results) :
         LookupMonster(MonsterDb, lastOutcome.results[i].name).available
           = DayLabel(lastOutcome.day)
  /\ (activeTab = "monster" /\ selectedDay # "" /\ filterRuns = EmptyBag) =>
       \A i \in 1..Len(manualMonsters) :
         manualMonsters[i].available = selectedDay

\* ------------------------------------------------------ card pointer query
\* the frame whose detections are ids, highest confidence first
CardFrameOf(ids) ==
  [c \in 1..MaxConf |->
     IF MaxConf - c + 1 <= Len(ids) THEN ids[MaxConf - c + 1] ELSE NoDet]

\* frames under the pointer: nothing, one card, a card without a catalog
\* record above or between cards with one, three cards, and four detections
\* with and without a repeated entity
PointerFrames ==
  { CardFrameOf(ids) :
      ids \in { << >>, << "a" >>, << "d", "a" >>, << "a", "d", "b" >>,
                << "a", "b", "c" >>, << "a", "a", "b", "c" >>,
                << "c", "b", "a", "d" >> } }

\* the card hotkey alone: pointer queries, their item lookups, and the list
\* effect run that the switch to the card tab starts
NextCard ==
  \/ HandleRecognizeCard(MaxCardRequests)
  \/ \E ok \in BOOLEAN, f \in PointerFrames : CardReturn(ok, f)
  \/ \E i \in 1..MaxCardRequests, ok \in BOOLEAN : CardInfoDone(i, ok)
  \/ ErrorTimeout
  \/ \E run \in BagToSet(filterRuns) : FilterDone(run)

SpecCard == Init /\ [][NextCard]_vars

\* C9: after a successful pointer query the cards presented on the card tab
\* are in strictly descending confidence, the card labelled MATCH is the
\* query's highest-confidence candidate, and a query with two candidates
\* presents exactly those two, in order.
C9_PresentedCandidates ==
  (lastOutcome.kind = "card" /\ lastOutcome.ok
     /\ lastOutcome.results # << >>) =>
    /\ \A i, j \in 1..Len(displayList(recognizedCards)) :
         i < j => displayList(recognizedCards)[i].conf
                    > displayList(recognizedCards)[j].conf
    /\ \A i \in 1..Len(displayList(recognizedCards)) :
         (CardLabel(i) = "MATCH")
           <=> (displayList(recognizedCards)[i].uuid
                  = lastOutcome.results[1].id)
    /\ Len(lastOutcome.results) = 2 =>
         /\ Len(displayList(recognizedCards)) = 2
         /\ \A i \in 1..2 :
              displayList(recognizedCards)[i].uuid = lastOutcome.results[i].id

\* over every card frame the pointer query returns at most three candidates
\* with pairwise distinct entity ids
PointerQueryBounded ==
  \A f \in CardFrames :
    /\ Len(recognize_card_at_mouse(f)) <= 3
    /\ \A i, j \in 1..Len(recognize_card_at_mouse(f)) :
         i # j => recognize_card_at_mouse(f)[i].id
                    # recognize_card_at_mouse(f)[j].id

\* C10: a pointer-query result, in flight or presented, holds at most three
\* candidates, at most one MATCH and at most two MAYBE, with pairwise
\* distinct entity ids.
C10_AtMostThreeDistinct ==
  /\ Len(displayList(recognizedCards)) <= 3
  /\ Cardinality({ i \in 1..Len(displayList(recognizedCards)) :
                     CardLabel(i) = "MATCH" }) <= 1
  /\ Cardinality({ i \in 1..Len(displayList(recognizedCards)) :
                     CardLabel(i) = "MAYBE" }) <= 2
  /\ \A i, j \in 1..Len(displayList(recognizedCards)) :
       i # j => displayList(recognizedCards)[i].uuid
                  # displayList(recognizedCards)[j].uuid
  /\ \A k \in 1..Len(cardPost) :
       /\ Len(cardPost[k]) <= 3
       /\ \A i, j \in 1..Len(cardPost[k]) :
            i # j => cardPost[k][i].id # cardPost[k][j].id
  /\ PointerQueryBounded

\* a query that found three candidates, all with catalog records, is shown
C10_Witness ==
  /\ lastOutcome.kind = "card"
  /\ Len(lastOutcome.results) = 3
  /\ Len(displayList(recognizedCards)) = 3


\* ------------------------------------------------ card query, empty result
\* the step in which recognize_card_at_mouse answers with no candidate
EmptyCardReturn ==
  /\ cardCalls' = cardCalls - 1
  /\ cardPost' = cardPost
  /\ lastOutcome'.kind = "card"
  /\ lastOutcome'.ok

\* C11: when a card recognition produces no candidates the caller gets an
\* empty result and not an error: no error message is set and the cards
\* shown afterwards are the empty list, not those of an earlier invocation.
C11_EmptyResultNotError ==
  [][EmptyCardReturn =>
       /\ errorMessage' = "null"
       /\ displayList(recognizedCards') = << >>]_vars


\* ------------------------------------------------- neural detection fails
\* the step in which recognize_card_at_mouse throws
CardInferenceError ==
  /\ cardCalls' = cardCalls - 1
  /\ cardPost' = cardPost
  /\ lastOutcome'.kind = "card"
  /\ ~lastOutcome'.ok

\* the step in which trigger_yolo_scan throws
YoloInferenceError ==
  /\ Len(yoloCalls') = Len(yoloCalls) - 1
  /\ yoloPost' = yoloPost

\* C12: when the neural detection call fails the error is surfaced to the
\* caller (an error message is set), no classical-matcher call is made or
\* scheduled as a fallback, and the failed request is not issued again.
C12_InferenceErrorSurfaced ==
  [][(CardInferenceError \/ YoloInferenceError) =>
       /\ errorMessage' # "null"
       /\ monsterCalls' = monsterCalls
       /\ monsterTimers' = monsterTimers
       /\ cardCalls' <= cardCalls
       /\ Len(yoloCalls') <= Len(yoloCalls)]_vars


\* ---------------------------------------------------- classical matcher
MaxMatcherRequests == 2

\* every score a slot can show for the catalog's entries
Views == [MonsterNames -> 0..MaxScore]

\* views around the acceptance threshold: A and C just below it, at it or
\* at the top score, B (an entry of another day) absent or at the top score
SlotViews ==
  { [n \in MonsterNames |-> IF n = "A" THEN a ELSE IF n = "C" THEN c ELSE b] :
      a \in { Threshold - 1, Threshold, MaxScore },
      c \in { Threshold - 1, Threshold, MaxScore },
      b \in { 0, MaxScore } }

\* frames of the monster area: a view around the threshold in the left
\* slot, the middle and right slots empty or showing one entry
MatcherFrames ==
  { [s \in Slots |-> IF s = 1 THEN v1 ELSE IF s = 2 THEN v2 ELSE v3] :
      v1 \in SlotViews, v2 \in { BlankView, ViewC },
      v3 \in { BlankView, ViewAB } }

\* recognitions with either day over the matcher frames, the template bank
\* being published
NextMatcher ==
  \/ \E d \in { 1, 2 } : TriggerMonsterRecognition(d, MaxMatcherRequests)
  \/ MonsterTimerFire
  \/ \E i \in 1..MaxMatcherRequests : MonsterReturn(i, MatcherFrames)

SpecMatcher == InitMonster /\ [][NextMatcher]_vars

\* C13: a monster recognition returns at most 3 candidates, at most one per
\* slot, each with a slot index in 1..3 and in increasing slot order; the
\* candidate of a slot is an entry of the day that scores best in that slot
\* and at or above the threshold, a slot in which no entry of the day
\* reaches the threshold has no candidate, and the front end lists the
\* names in that same order.
C13_SlotResults ==
  (lastOutcome.kind = "monster" /\ lastOutcome.ok) =>
    LET R == lastOutcome.results
        F == lastOutcome.frame
        E == entries_for_day(lastOutcome.day)
    IN /\ Len(R) <= 3
       /\ \A i \in 1..Len(R) : R[i].position \in 1..3
       /\ \A i, j \in 1..Len(R) : i < j => R[i].position < R[j].position
       /\ \A i \in 1..Len(R) :
            /\ R[i].name \in E
            /\ F[R[i].position][R[i].name] >= Threshold
            /\ \A m \in E :
                 F[R[i].position][m] <= F[R[i].position][R[i].name]
       /\ \A s \in Slots :
            (\A m \in E : F[s][m] < Threshold) =>
              ~\E i \in 1..Len(R) : R[i].position = s
       /\ ValidNames(R) = [i \in 1..Len(R) |-> R[i].name]

\* the left and right slots matched and the middle slot was left empty
C13_Witness ==
  /\ lastOutcome.kind = "monster"
  /\ lastOutcome.ok
  /\ Len(lastOutcome.results) = 2
  /\ lastOutcome.results[1].position = 1
  /\ lastOutcome.results[2].position = 3
  /\ identifiedNames = << lastOutcome.results[1].name,
                          lastOutcome.results[2].name >>


\* ------------------------------------------------------ the loader's run
\* the loader is a background task that runs until the catalog is exhausted
FairProgress == SpecProgress /\ WF_vars(LoadStep(BOOLEAN))

\* C14: for every catalog, also with missing or corrupt entries that are
\* skipped, total_count stays the declared number of entries and a started
\* load eventually reaches loaded_count = total_count with is_complete true.
C14_LoadCompletes ==
  /\ [](loaderStarted => progress.total = CatalogSize)
  /\ loaderStarted ~>
       (progress.loaded = progress.total /\ progress.is_complete)

\* a load that skipped an entry has completed
C14_Witness ==
  /\ progress.is_complete
  /\ progress.loaded = CatalogSize
  /\ loading.built # 1..CatalogSize


\* ------------------------------------------- reads of the Template Bank
\* C15: while load_all runs concurrently with recognition requests, every
\* read of the Template Bank by a matcher sees either no published bank
\* (and the request is not ready) or the complete snapshot, never the bank
\* under construction, and a published snapshot never changes.
C15_NoPartialBank ==
  /\ [](\A i \in 1..Len(monsterCalls) :
          \/ monsterCalls[i].seen = NoBank /\ ~monsterCalls[i].ready
          \/ /\ monsterCalls[i].seen.published
             /\ monsterCalls[i].ready
             /\ loading.next > CatalogSize
             /\ monsterCalls[i].seen.entries = loading.built)
  /\ [][bank.published => bank' = bank]_vars

\* a request that read the bank before its publication is in flight
\* together with one that read the published snapshot
C15_Witness ==
  \E i, j \in 1..Len(monsterCalls) :
    /\ monsterCalls[i].seen = NoBank
    /\ monsterCalls[j].seen.published


\* C16: a candidate whose score is below the acceptance threshold is
\* excluded from the matcher's output; a candidate whose score equals or
\* exceeds the threshold is included: its slot has a result, and the result
\* is this candidate when no other candidate of the slot scores as high.
C16_ThresholdInclusive ==
  (lastOutcome.kind = "monster" /\ lastOutcome.ok) =>
    LET R == lastOutcome.results
        F == lastOutcome.frame
        E == entries_for_day(lastOutcome.day)
    IN \A s \in Slots, n \in E :
         /\ F[s][n] < Threshold =>
              ~\E i \in 1..Len(R) : R[i].position = s /\ R[i].name = n
         /\ F[s][n] >= Threshold =>
              \E i \in 1..Len(R) : R[i].position = s
         /\ (F[s][n] >= Threshold /\ \A m \in E \ { n } : F[s][m] < F[s][n]) =>
              \E i \in 1..Len(R) : R[i].position = s /\ R[i].name = n

\* one slot's result scores exactly the threshold while another slot, whose
\* best entry scores just below it, has no result
C16_Witness ==
  /\ lastOutcome.kind = "monster"
  /\ lastOutcome.ok
  /\ \E i \in 1..Len(lastOutcome.results) :
       lastOutcome.frame[lastOutcome.results[i].position]
                        [lastOutcome.results[i].name] = Threshold
  /\ \E s \in Slots :
       /\ \E n \in entries_for_day(lastOutcome.day) :
            lastOutcome.frame[s][n] = Threshold - 1
       /\ \A i \in 1..Len(lastOutcome.results) :
            lastOutcome.results[i].position # s


\* C17: of the eligible templates that compete for a slot the one with the
\* strictly higher score wins, and among templates with exactly equal
\* scores the one with the lexicographically smaller catalog id wins; the
\* winner depends only on the scores and the ids.
C17_TieBreak ==
  (lastOutcome.kind = "monster" /\ lastOutcome.ok) =>
    LET R == lastOutcome.results
        F == lastOutcome.frame
        E == entries_for_day(lastOutcome.day)
    IN \A i \in 1..Len(R) : \A m \in E \ { R[i].name } :
         \/ F[R[i].position][m] < F[R[i].position][R[i].name]
         \/ /\ F[R[i].position][m] = F[R[i].position][R[i].name]
            /\ IdRank(R[i].name) < IdRank(m)

\* two entries of the day tie in the left slot at an accepted score and the
\* one with the smaller id is the result
C17_Witness ==
  /\ lastOutcome.kind = "monster"
  /\ lastOutcome.ok
  /\ lastOutcome.day = 1
  /\ lastOutcome.frame[1]["A"] = lastOutcome.frame[1]["C"]
  /\ lastOutcome.frame[1]["A"] >= Threshold
  /\ Len(lastOutcome.results) >= 1
  /\ lastOutcome.results[1] = [name |-> "A", position |-> 1]


MonsterFound ==
  /\ Len(monsterCalls') = Len(monsterCalls) - 1
  /\ lastOutcome'.kind = "monster"
  /\ lastOutcome'.ok
  /\ Len(lastOutcome'.results) > 0

\* C19: after a monster recognition that returns at least one result,
\* identifiedNames is the list of the recognised names in slot order with
\* the empty slots removed, and every recognised name that is a key of the
\* monster database loaded at that time is a member of expandedMonsters.
C19_RecognisedExpanded ==
  [][MonsterFound =>
       /\ identifiedNames' =
            [i \in 1..Len(lastOutcome'.results) |-> lastOutcome'.results[i].name]
       /\ \A n \in Range(identifiedNames') :
            HasMonster(allMonsters, n) => n \in expandedMonsters']_vars


\* ------------------------------------------------- the poller's liveness
\* the interval timer keeps ticking until it is cleared, every poll is
\* answered and its answer delivered, and the loader runs to the end
NextPoller ==
  \/ EnterApp
  \/ LoadStep(BOOLEAN)
  \/ PollTickInFlight(MaxLivePolls)
  \/ \E i \in 1..MaxLivePolls : PollServe(i)
  \/ \E i \in 1..MaxLivePolls : PollDeliver(i)

FairPoller ==
  /\ Init /\ [][NextPoller]_vars
  /\ WF_vars(LoadStep(BOOLEAN))
  /\ WF_vars(PollTickInFlight(MaxLivePolls))
  /\ WF_vars(\E i \in 1..MaxLivePolls : PollServe(i))
  /\ WF_vars(\E i \in 1..MaxLivePolls : PollDeliver(i))

\* the front end shows the completed load
LoadShownComplete ==
  templateLoading =
    [loaded |-> CatalogSize, total |-> CatalogSize, is_complete |-> TRUE]

BoundaryDays == { 2, 9, 10, 11 }

\* everything that sets the day: the mount effect's get_current_day, day
\* tabs, day-update, trigger-monster-recognition carrying a day with the
\* recognition it starts, and auto-jump-to-monster
NextDay ==
  \/ FetchDayDone
  \/ \E d \in { "Day 1", "Day 9", "Day 10+" }, ok \in BOOLEAN :
       ClickDayTab(d, ok)
  \/ \E d \in BoundaryDays : DayUpdate(d)
  \/ \E d \in BoundaryDays, names \in { << "A" >>, << "B", "C" >> } :
       AutoJumpToMonster(d, names)
  \/ \E d \in BoundaryDays : TriggerMonsterRecognition(d, MaxMonsterRequests)
  \/ MonsterTimerFire
  \/ \E i \in 1..MaxMonsterRequests : MonsterReturn(i, GateFrames)

SpecDay == InitMonster /\ [][NextDay]_vars

\* C21: whenever currentDay is a number d, the selected day tab is "Day d"
\* for d < 10 and "Day 10+" for d >= 10.
C21_DayLabelMatches ==
  currentDay # NoDay =>
    selectedDay = (IF currentDay >= 10 THEN "Day 10+"
                   ELSE "Day " \o DigitStr[currentDay])

\* the day is past the boundary, the "Day 10+" tab is selected, and a
\* recognition has answered
C21_Witness ==
  /\ currentDay = 11
  /\ selectedDay = "Day 10+"
  /\ dayOps = MaxDayOps
  /\ lastOutcome.kind = "monster"


\* C22: every handleDayChange leaves currentDay equal to the day the
\* Day/Context Bridge holds: when update_day succeeds both are the new day,
\* and when update_day fails currentDay (and with it selectedDay) is back
\* at the value the bridge still has.
C22_DayAgreesWithBridge ==
  [][(\E d \in DayTabs, ok \in BOOLEAN : ClickDayTab(d, ok))
       => /\ currentDay' = bridgeDay'
          /\ selectedDay' = DayLabel(bridgeDay')]_vars


\* ------------------------------------------------ the overlay on its own
MaxOverlayRequests == 4

\* OverlayApp.tsx:172-205: the overlay window runs only the
\* 'global-right-click' listener and the continuations of its calls
NextOverlay ==
  \/ GlobalRightClick(MaxOverlayRequests)
  \/ \E res \in OverlayResults : OverlayReturn(res)
  \/ \E i \in 1..MaxOverlayRequests : OverlayImagesDone(i)

SpecOverlay == Init /\ [][NextOverlay]_vars

\* the listener runs that have not reached the end of their finally block
OverlayInFlight == overlayCalls + Len(overlayPost)

C24_IdentifyingTracksCalls == identifying <=> OverlayInFlight > 0


\* ------------------------------------------- listener lifecycle on its own
\* App.tsx:902-1075, 1255-1276: the registrations resolve, events arrive and
\* the component is unmounted, in any order
NextLifecycle ==
  \/ SafeListenResolve
  \/ DbReadyListenResolve
  \/ Unmount
  \/ \E i \in SafeListeners : DeliverSafe(i)
  \/ \E res \in MonsterResponses : DeliverDbReady(res)
  \/ \E run \in BagToSet(filterRuns) : FilterDone(run)

SpecLifecycle == Init /\ [][NextLifecycle]_vars

\* C25: however the unmount interleaves with the resolution of the listen()
\* registrations, once the component is unmounted and every registration
\* has resolved no listener App registered (safeListen or
\* 'monsters-db-ready') is left registered, and no listener callback has
\* updated state after the unmount.
C25_ListenersReleased ==
  /\ lateUpdates = 0
  /\ (~isMounted /\ setupNext > NumSafeListeners /\ ~dbListenPending)
       => registered = {}


\* C26: after the selected day has changed several times and every pending
\* updateFilteredMonsters run has finished, in whatever order, manualMonsters
\* is exactly the list of the most recently selected day: its monsters, the
\* identified ones first in identification order.
C26_LatestDayShown ==
  (activeTab = "monster" /\ selectedDay # "" /\ filterRuns = EmptyBag) =>
    manualMonsters = FilteredList(selectedDay, allMonsters, identifiedNames)


\* ---------------------------------------------------- pinned items on their own
\* App.tsx:927, 3361: the hand arrives by 'sync-items', pin buttons toggle
NextPin ==
  \/ \E list \in HandLists : SyncItems(list)
  \/ \E id \in PinKeys : TogglePin(id)

SpecPin == Init /\ [][NextPin]_vars

RECURSIVE IsSubseq(_, _)
\* a can be obtained from b by deleting elements
IsSubseq(a, b) ==
  IF a = << >> THEN TRUE
  ELSE IF b = << >> THEN FALSE
  ELSE IF Head(a) = Head(b) THEN IsSubseq(Tail(a), Tail(b))
  ELSE IsSubseq(a, Tail(b))

\* of the items with key k, the one that comes first in sorted order: the
\* most recently pinned one, and the earliest in the list among equals
KeptFor(items, pins, k) ==
  LET cands == { j \in 1..Len(items) : ItemKey(items[j]) = k }
      best == { j \in cands :
                  \A h \in cands : PinOf(pins, items[h]) <= PinOf(pins, items[j]) }
  IN  items[CHOOSE j \in best : \A h \in best : j <= h]

\* C27: in the output of getSortedItems every pinned item precedes every
\* unpinned one, pinned items are ordered most recently pinned first,
\* unpinned items keep their relative order, every key (instance_id, or uuid
\* without one) of the input appears exactly once and the item kept for it
\* is the first one in sorted order; and successive pins by togglePin get
\* strictly increasing pin numbers.
C27_SortedPinned ==
  LET Pinned(a) == PinOf(pinnedItems, a) # 0
      Unpinned(a) == PinOf(pinnedItems, a) = 0
  IN  /\ \A i, j \in 1..Len(shownItems) :
           i < j =>
             /\ Pinned(shownItems[j]) => Pinned(shownItems[i])
             /\ (Pinned(shownItems[i]) /\ Pinned(shownItems[j])) =>
                  PinOf(pinnedItems, shownItems[i])
                    >= PinOf(pinnedItems, shownItems[j])
             /\ ItemKey(shownItems[i]) # ItemKey(shownItems[j])
      /\ IsSubseq(SelectSeq(shownItems, Unpinned),
                  SelectSeq(handItems, Unpinned))
      /\ { ItemKey(shownItems[i]) : i \in 1..Len(shownItems) }
           = { ItemKey(handItems[i]) : i \in 1..Len(handItems) }
      /\ \A i \in 1..Len(shownItems) :
           shownItems[i]
             = KeptFor(handItems, pinnedItems, ItemKey(shownItems[i]))
      /\ \A i, j \in 1..Len(pinLog) : i < j => pinLog[i] < pinLog[j]

\* reached: two items pinned one after the other, the later pin shown first,
\* an unpinned item after them
C27_Witness ==
  /\ Len(handItems) = 3
  /\ Len(shownItems) = 3
  /\ Len(pinLog) >= 2
  /\ PinOf(pinnedItems, shownItems[1]) > PinOf(pinnedItems, shownItems[2])
  /\ PinOf(pinnedItems, shownItems[2]) > 0
  /\ PinOf(pinnedItems, shownItems[3]) = 0
  /\ shownItems[1] = handItems[3]


\* ------------------------------------------------ loadAllMonsters on its own
\* App.tsx:1226-1276: the retry loop, with 'monsters-db-ready' reloads
\* arriving beside it
NextLoader ==
  \/ \E res \in MonsterResponses : LoadAllMonstersReturn(res)
  \/ LoadRetryTimerFire
  \/ DbReadyListenResolve
  \/ \E res \in MonsterResponses : DeliverDbReady(res)
  \/ \E run \in BagToSet(filterRuns) : FilterDone(run)

SpecLoader == Init /\ [][NextLoader]_vars

\* C28: loadAllMonsters calls get_all_monsters at most 16 times (the first
\* call and at most 15 retries); it calls again only after an empty
\* response; after a non-empty response or a throw no call is in flight and
\* no retry is scheduled; and right after a non-empty response allMonsters
\* is that response.
C28_LoaderBounded ==
  [][/\ getAllCalls' <= 16
     /\ getAllCalls' # getAllCalls =>
          /\ getAllCalls' = getAllCalls + 1
          /\ loadOutcome = "none"
          /\ retryCount' = getAllCalls
     /\ loadOutcome' \in { "loaded", "threw" } =>
          ~monstersCall' /\ ~retryTimer'
     /\ \A res \in MonsterResponses :
          (LoadAllMonstersReturn(res) /\ res.ok /\ Len(res.db) > 0) =>
            /\ allMonsters' = res.db
            /\ loadOutcome' = "loaded"
     /\ \A res \in MonsterResponses :
          (LoadAllMonstersReturn(res) /\ ~res.ok) =>
            /\ allMonsters' = allMonsters
            /\ loadOutcome' = "threw"]_vars

\* reached: fifteen empty responses, then the sixteenth call answers with
\* the database
C28_Witness ==
  /\ getAllCalls = 16
  /\ retryCount = 15
  /\ loadOutcome = "loaded"
  /\ allMonsters = MonsterDb
  /\ ~monstersCall
  /\ ~retryTimer


\* ---------------------------------------------------- useDraggable on its own
\* useDraggable.ts: a component using the hook is rendered, then mouse
\* events arrive in any order
NextDrag ==
  \/ \E key \in { NoKey, "widget-pos" } : UseDraggable(key)
  \/ DragRemount
  \/ \E button \in { 0, 2 }, t \in Targets, pt \in Pointers :
       MouseDown(button, t, pt)
  \/ \E pt \in Pointers : MouseMove(pt)
  \/ \E pt \in Pointers : MouseUp(pt)

SpecDrag == Init /\ [][NextDrag]_vars

\* a mouse event is handled
MouseStep ==
  \/ \E button \in { 0, 2 }, t \in Targets, pt \in Pointers :
       MouseDown(button, t, pt)
  \/ \E pt \in Pointers : MouseMove(pt)
  \/ \E pt \in Pointers : MouseUp(pt)

\* C29: a mouse event changes position only between a left-button mousedown
\* on a draggable target and the next mouseup; a mousemove or mouseup
\* outside a drag, and a mousedown with another button or on a button or
\* no-drag element, leave position and the stored value unchanged; and
\* after the mouseup that ends a drag, position is the pointer minus the
\* grab offset and, with a storageKey, the stored value is that position.
C29_DragFrame ==
  [][/\ (position' # position \/ stored' # stored) =>
          /\ MouseStep => dragOpen
          /\ ~ \E button \in { 0, 2 }, t \in Targets, pt \in Pointers :
                 /\ button # 0 \/ t.tagName = "BUTTON" \/ t.inButton \/ t.noDrag
                 /\ MouseDown(button, t, pt)
     /\ dragOpen =>
          \A pt \in Pointers :
            MouseUp(pt) =>
              /\ position' = [x |-> pt.x - offset.x, y |-> pt.y - offset.y]
              /\ storageKey # NoKey =>
                   /\ stored' = JSONStringify(position')
                   /\ getSavedPosition(storageKey, stored') = position'
              /\ storageKey = NoKey => stored' = stored
              /\ ~isDragging']_vars

\* reached: a drag with a storageKey moved the widget away from initialPos
\* and its end stored the new position
C29_Witness ==
  /\ dragMounted
  /\ storageKey # NoKey
  /\ ~dragOpen
  /\ ~isDragging
  /\ position # initialPos
  /\ stored = JSONStringify(position)

====
